---- MODULE Spec2Model ----
(***************************************************************************)
(* Model of the GeoJobs extraction pipeline (src/app/main.py).             *)
(*                                                                         *)
(* Texts are sequences of Unicode code points, so that the regular         *)
(* expressions of the sanitizer are modelled character by character.       *)
(***************************************************************************)
EXTENDS Integers, Sequences, FiniteSets, TLC

\* ------------------------------------------------------------------------
\* Characters (code points) and character classes of Python's re module
\* ------------------------------------------------------------------------
HASH == 35
SPACE == 32
TAB == 9
NL == 10

\* "переслано от", the literal of FORWARDED_RE
BannerLit == <<1087, 1077, 1088, 1077, 1089, 1083, 1072, 1085, 1086, 32, 1086, 1090>>
\* "http" and "://", the literals of URL_RE
HttpLit == <<104, 116, 116, 112>>
SchemeSepLit == <<58, 47, 47>>
LetterS == 115

\* \s
IsSpace(c) == c \in {SPACE, TAB, NL, 11, 12, 13}
\* [ \t]
IsHSpace(c) == c \in {SPACE, TAB}
\* \S
IsNonSpace(c) == ~IsSpace(c)
\* .  (without re.S)
IsNotNewline(c) == c # NL
IsNewline(c) == c = NL
\* [\wА-Яа-я_]
IsWord(c) ==
    \/ c \in 48..57
    \/ c \in 65..90
    \/ c \in 97..122
    \/ c = 95
    \/ c \in 1040..1103
    \/ c \in {1025, 1105}

\* re.I: case folding of the letters that occur in the patterns
Lower(c) ==
    IF c \in 65..90 THEN c + 32
    ELSE IF c \in 1040..1071 THEN c + 32
    ELSE c

\* first index >= i whose character is not in class P, Len(s)+1 when none
RunEnd(s, i, P(_)) ==
    LET J == {j \in i..(Len(s) + 1) : j = Len(s) + 1 \/ ~P(s[j])}
    IN  CHOOSE j \in J : \A k \in J : j <= k

\* s[i..] starts with the literal lit
StartsWith(s, i, lit) ==
    /\ i + Len(lit) - 1 <= Len(s)
    /\ \A k \in 1..Len(lit) : s[i + k - 1] = lit[k]

StartsWithNoCase(s, i, lit) ==
    /\ i + Len(lit) - 1 <= Len(s)
    /\ \A k \in 1..Len(lit) : Lower(s[i + k - 1]) = lit[k]

\* ------------------------------------------------------------------------
\* sanitize_text: length of the match of each pattern at position i (0: none)
\* ------------------------------------------------------------------------

\* FORWARDED_RE = ^переслано от.*$  (re.I | re.M)
ForwardedMatchLen(s, i) ==
    IF /\ (i = 1 \/ s[i - 1] = NL)
       /\ StartsWithNoCase(s, i, BannerLit)
    THEN RunEnd(s, i + Len(BannerLit), IsNotNewline) - i
    ELSE 0

\* HASHTAG_RE = (?:^|\s)#[\wА-Яа-я_]+   (no re.M: ^ is the start of the text)
HashtagMatchLen(s, i) ==
    IF i = 1 /\ Len(s) >= 2 /\ s[1] = HASH /\ IsWord(s[2])
    THEN RunEnd(s, 2, IsWord) - 1
    ELSE IF /\ i + 2 <= Len(s)
            /\ IsSpace(s[i])
            /\ s[i + 1] = HASH
            /\ IsWord(s[i + 2])
    THEN RunEnd(s, i + 2, IsWord) - i
    ELSE 0

\* URL_RE = https?://\S+
UrlMatchLen(s, i) ==
    IF ~StartsWith(s, i, HttpLit) THEN 0
    ELSE IF /\ i + 4 <= Len(s)
            /\ s[i + 4] = LetterS
            /\ StartsWith(s, i + 5, SchemeSepLit)
            /\ i + 8 <= Len(s)
            /\ IsNonSpace(s[i + 8])
    THEN RunEnd(s, i + 8, IsNonSpace) - i
    ELSE IF /\ StartsWith(s, i + 4, SchemeSepLit)
            /\ i + 7 <= Len(s)
            /\ IsNonSpace(s[i + 7])
    THEN RunEnd(s, i + 7, IsNonSpace) - i
    ELSE 0

\* MULTISPACE_RE = [ \t]{2,}
MultispaceMatchLen(s, i) ==
    IF i + 1 <= Len(s) /\ IsHSpace(s[i]) /\ IsHSpace(s[i + 1])
    THEN RunEnd(s, i, IsHSpace) - i
    ELSE 0

\* \n{3,}
NewlinesMatchLen(s, i) ==
    IF i + 2 <= Len(s) /\ s[i] = NL /\ s[i + 1] = NL /\ s[i + 2] = NL
    THEN RunEnd(s, i, IsNewline) - i
    ELSE 0

\* pattern.sub(repl, s): leftmost non-overlapping matches, scanned from i
RECURSIVE ReSub(_, _, _, _)
ReSub(MatchLen(_, _), repl, s, i) ==
    LET M == {j \in i..Len(s) : MatchLen(s, j) > 0}
    IN  IF M = {} THEN SubSeq(s, i, Len(s))
        ELSE CHOOSE r \in {SubSeq(s, i, j - 1) \o repl
                               \o ReSub(MatchLen, repl, s, j + MatchLen(s, j)) :
                           j \in {k \in M : \A m \in M : k <= m}} : TRUE

\* str.strip()
Strip(s) ==
    LET idx == {k \in 1..Len(s) : ~IsSpace(s[k])}
    IN  IF idx = {} THEN <<>>
        ELSE LET lo == CHOOSE k \in idx : \A j \in idx : k <= j
                 hi == CHOOSE k \in idx : \A j \in idx : k >= j
             IN  SubSeq(s, lo, hi)

sanitize_text(t) ==
    IF t = <<>> THEN t
    ELSE LET t1 == ReSub(ForwardedMatchLen, <<>>, t, 1)
             t2 == ReSub(HashtagMatchLen, <<>>, t1, 1)
             t3 == ReSub(UrlMatchLen, <<>>, t2, 1)
             t4 == ReSub(MultispaceMatchLen, <<SPACE>>, t3, 1)
             t5 == ReSub(NewlinesMatchLen, <<NL, NL>>, t4, 1)
         IN  Strip(t5)


\* ------------------------------------------------------------------------
\* rule_enrich: the salary heuristic, character by character
\* ------------------------------------------------------------------------
\* "зарплата", "оплата", "от", "тыс", "руб": the words of the salary patterns
SalaryWords ==
    [zarplata |-> <<1079, 1072, 1088, 1087, 1083, 1072, 1090, 1072>>,
     oplata |-> <<1086, 1087, 1083, 1072, 1090, 1072>>,
     ot |-> <<1086, 1090>>,
     tys |-> <<1090, 1099, 1089>>,
     rub |-> <<1088, 1091, 1073>>]

\* \d
IsDigit(c) == c \in 48..57
\* [\d\s\-\.\(\)]
IsPhoneChar(c) == IsDigit(c) \/ IsSpace(c) \/ c \in {45, 46, 40, 41}
\* [0-9\s]
IsDigitOrSpace(c) == IsDigit(c) \/ IsSpace(c)

\* s[a..b] are digits
AllDigits(s, a, b) == b <= Len(s) /\ \A k \in a..b : IsDigit(s[k])

\* PHONE_RE = \+?\d[\d\s\-\.\(\)]{7,}
PhoneMatchLen(s, i) ==
    LET d == IF s[i] = 43 THEN i + 1 ELSE i
    IN  IF /\ d <= Len(s)
           /\ IsDigit(s[d])
           /\ RunEnd(s, d + 1, IsPhoneChar) - (d + 1) >= 7
        THEN RunEnd(s, d + 1, IsPhoneChar) - i
        ELSE 0

\* PHONE_RE.finditer(t): the spans <<start, end>> (end exclusive) from i on
RECURSIVE PhoneSpans(_, _)
PhoneSpans(s, i) ==
    LET M == {j \in i..Len(s) : PhoneMatchLen(s, j) > 0}
    IN  UNION {{<<j, j + PhoneMatchLen(s, j)>>} \cup PhoneSpans(s, j + PhoneMatchLen(s, j)) :
                  j \in {k \in M : \A m \in M : k <= m}}

\* (т\.?р|тыс\.?|руб\.?|₽) with re.I, at position k
UnitMatchLen(s, k) ==
    IF k > Len(s) THEN 0
    ELSE IF /\ Lower(s[k]) = 1090
            /\ k + 2 <= Len(s)
            /\ s[k + 1] = 46
            /\ Lower(s[k + 2]) = 1088
    THEN 3
    ELSE IF Lower(s[k]) = 1090 /\ k + 1 <= Len(s) /\ Lower(s[k + 1]) = 1088
    THEN 2
    ELSE IF StartsWithNoCase(s, k, SalaryWords.tys)
    THEN (IF k + 3 <= Len(s) /\ s[k + 3] = 46 THEN 4 ELSE 3)
    ELSE IF StartsWithNoCase(s, k, SalaryWords.rub)
    THEN (IF k + 3 <= Len(s) /\ s[k + 3] = 46 THEN 4 ELSE 3)
    ELSE IF s[k] = 8381 THEN 1
    ELSE 0

\* (т\.?р|тыс\.?) with re.I, at position k
ThousandMatchLen(s, k) ==
    IF k <= Len(s) /\ Lower(s[k]) = 1090 /\ UnitMatchLen(s, k) > 0
    THEN UnitMatchLen(s, k)
    ELSE 0

\* _rub_hint: re.search(r"(₽|руб|т\.?р|тыс\.?)", t, re.I)
_rub_hint(t) ==
    IF \E k \in 1..Len(t) : UnitMatchLen(t, k) > 0 THEN "RUB" ELSE "unknown"

NoMatch == [start |-> 0, end |-> 0, base |-> <<>>, unit |-> <<>>]

\* RE_SALARY_TRUB =
\* (?:з[п/\:]|зарплата|оплата)\s*[:=~-]?\s*(от\s*)?([0-9][0-9\s]{1,})(\+)?\s*
\* (т\.?р|тыс\.?|руб\.?|₽)?   with re.I
\* the keyword (?:з[п/\:]|зарплата|оплата) at position i: its length, or 0
KeywordLen(s, i) ==
    IF /\ Lower(s[i]) = 1079
       /\ i + 1 <= Len(s)
       /\ (Lower(s[i + 1]) = 1087 \/ s[i + 1] \in {47, 58})
    THEN 2
    ELSE IF StartsWithNoCase(s, i, SalaryWords.zarplata) THEN 8
    ELSE IF StartsWithNoCase(s, i, SalaryWords.oplata) THEN 6
    ELSE 0

\* [:=~-]? at position j: the position after it
SkipSeparator(s, j) == IF j <= Len(s) /\ s[j] \in {58, 61, 126, 45} THEN j + 1 ELSE j

\* (от\s*)? at position j: the position after it
SkipOt(s, j) == IF StartsWithNoCase(s, j, SalaryWords.ot) THEN RunEnd(s, j + 2, IsSpace) ELSE j

\* the match that starts at i, whose group 2 is s[b..e-1], and whose optional
\* unit is looked for at u, after (\+)?\s*
TrubTail(s, i, b, e, u) ==
    [start |-> i, end |-> u + UnitMatchLen(s, u), base |-> SubSeq(s, b, e - 1),
     unit |-> SubSeq(s, u, u + UnitMatchLen(s, u) - 1)]

\* group 2, ([0-9][0-9\s]{1,}), at position b, and what follows it
TrubNumber(s, i, b) ==
    IF b + 1 <= Len(s) /\ IsDigit(s[b]) /\ IsDigitOrSpace(s[b + 1])
    THEN CHOOSE m \in {TrubTail(s, i, b, e,
                                 RunEnd(s, IF e <= Len(s) /\ s[e] = 43 THEN e + 1 ELSE e,
                                        IsSpace)) :
                          e \in {RunEnd(s, b + 1, IsDigitOrSpace)}} : TRUE
    ELSE NoMatch

\* RE_SALARY_TRUB matched at position i: base is group 2 and unit group 4
TrubMatch(s, i) ==
    IF KeywordLen(s, i) = 0 THEN NoMatch
    ELSE CHOOSE m \in {TrubNumber(s, i, b) :
                          b \in {SkipOt(s, RunEnd(s, SkipSeparator(s,
                                     RunEnd(s, i + KeywordLen(s, i), IsSpace)), IsSpace))}} :
             TRUE

\* RE_SALARY_NUM =
\* \b([12][0-9]{2}\s?[0-9]{3}|[1-9][0-9]{4,})(?:\s*₽|\s*руб|\s*р\b)?  with re.I
\* group 1 at position i: its length, or 0
NumLen(s, i) ==
    LET alt1 == IF s[i] \in {49, 50} /\ AllDigits(s, i + 1, i + 2)
                THEN IF i + 3 <= Len(s) /\ IsSpace(s[i + 3])
                     THEN (IF AllDigits(s, i + 4, i + 6) THEN 7 ELSE 0)
                     ELSE (IF AllDigits(s, i + 3, i + 5) THEN 6 ELSE 0)
                ELSE 0
        alt2 == IF s[i] \in 49..57 /\ RunEnd(s, i + 1, IsDigit) - i >= 5
                THEN RunEnd(s, i + 1, IsDigit) - i
                ELSE 0
    IN  IF alt1 > 0 THEN alt1 ELSE alt2

\* the match that starts at i with a group 1 of length g; k is the position
\* after the white space that follows it, where (?:\s*₽|\s*руб|\s*р\b)? is tried
NumTail(s, i, g, k) ==
    [start |-> i,
     end |-> IF k <= Len(s) /\ s[k] = 8381 THEN k + 1
             ELSE IF StartsWithNoCase(s, k, SalaryWords.rub) THEN k + 3
             ELSE IF /\ k <= Len(s)
                     /\ Lower(s[k]) = 1088
                     /\ (k + 1 > Len(s) \/ ~IsWord(s[k + 1]))
             THEN k + 1
             ELSE i + g,
     base |-> SubSeq(s, i, i + g - 1), unit |-> <<>>]

\* RE_SALARY_NUM matched at position i: base is group 1, there is no unit group
NumMatch(s, i) ==
    IF i = 1 \/ ~IsWord(s[i - 1])
    THEN CHOOSE m \in {IF g = 0 THEN NoMatch
                        ELSE CHOOSE n \in {NumTail(s, i, g, k) :
                                               k \in {RunEnd(s, i + g, IsSpace)}} : TRUE :
                          g \in {NumLen(s, i)}} : TRUE
    ELSE NoMatch

\* pattern.search(t): of the matches at the positions of t, the leftmost
Leftmost(M) ==
    IF M = {} THEN NoMatch ELSE CHOOSE m \in M : \A n \in M : m.start <= n.start

TrubSearch(t) == Leftmost({TrubMatch(t, i) : i \in 1..Len(t)} \ {NoMatch})
NumSearch(t) == Leftmost({NumMatch(t, i) : i \in 1..Len(t)} \ {NoMatch})

\* m = RE_SALARY_TRUB.search(t) or RE_SALARY_NUM.search(t)
SalaryMatch(t) ==
    CHOOSE m \in {IF a # NoMatch THEN a ELSE NumSearch(t) : a \in {TrubSearch(t)}} : TRUE

\* int(s), cut off above 5000000: a longer number is refused whatever follows
RECURSIVE IntOf(_, _)
IntOf(ds, acc) ==
    IF ds = <<>> THEN acc
    ELSE IF acc > 5000000 THEN acc
    ELSE IntOf(Tail(ds), acc * 10 + (Head(ds) - 48))

\* _intify(num_str, unit_hint): {} is None, {v} the value
_intify_any(num_str, unit_hint) ==
    LET ds == SelectSeq(num_str, IsDigit)
        n == IntOf(ds, 0)
    IN  IF ds = <<>> THEN {} ELSE {IF n < 1000 THEN n * 1000 ELSE n}
_intify(num_str, unit_hint) ==
    LET ds == SelectSeq(num_str, IsDigit)
        n == IntOf(ds, 0)
        thousand == \E k \in 1..Len(unit_hint) : ThousandMatchLen(unit_hint, k) > 0
        val == IF n > 5000000 THEN n
               ELSE IF thousand THEN (IF n > 5000 THEN 5000001 ELSE n * 1000)
               ELSE IF n < 1000 THEN n * 1000
               ELSE n
    IN  IF ds = <<>> THEN {}
        ELSE IF Len(ds) >= 10 /\ Len(ds) <= 12 THEN {}
        ELSE IF val < 15000 \/ val > 5000000 THEN {}
        ELSE {val}

\* phone_hit: a PHONE_RE span overlaps the span of m
PhoneHitNever(t, m) == FALSE
PhoneHit(t, m) ==
    \E ph \in PhoneSpans(t, 1) : ~(ph[2] <= m.start \/ ph[1] >= m.end)

\* the salary the heuristic of rule_enrich accepts from the text: {} or {val}
SalaryFromText(t) ==
    UNION {IF m = NoMatch THEN {}
           ELSE IF PhoneHit(t, m) THEN {}
           ELSE _intify(m.base, m.unit) : m \in {SalaryMatch(t)}}

\* ------------------------------------------------------------------------
\* rule_enrich: role markers, period, rotation and contacts, character by
\* character
\* ------------------------------------------------------------------------
\* the alternatives of the patterns, in lower case, each a pair <<a, b>> that
\* stands for a\s*b, or for the literal a when b is empty:
\*   vac       вакансия | работа
\*   resume    резюме | камеральщик
\*   need      требуется | ищем | в компанию | открыт набор
\*   offer     предлагаю услуги | готов(а)? выполнить | ищу подработк | ищу удаленк
\*   month     в\s*мес(яц)? | месяц | /мес
\*   day       в\s*день | /д | сут(ки)?
\*   hour      в\s*час | /ч
\*   shift     смена | за\s*смену
\*   rotation  вахта | вахтовый
TextWords ==
    [vac |-> {<<<<1074, 1072, 1082, 1072, 1085, 1089, 1080, 1103>>, <<>>>>,
          <<<<1088, 1072, 1073, 1086, 1090, 1072>>, <<>>>>},
     resume |-> {<<<<1088, 1077, 1079, 1102, 1084, 1077>>, <<>>>>,
          <<<<1082, 1072, 1084, 1077, 1088, 1072, 1083, 1100, 1097, 1080, 1082>>, <<>>>>},
     need |-> {<<<<1090, 1088, 1077, 1073, 1091, 1077, 1090, 1089, 1103>>, <<>>>>,
          <<<<1080, 1097, 1077, 1084>>, <<>>>>,
          <<<<1074, 32, 1082, 1086, 1084, 1087, 1072, 1085, 1080, 1102>>, <<>>>>,
          <<<<1086, 1090, 1082, 1088, 1099, 1090, 32, 1085, 1072, 1073, 1086, 1088>>, <<>>>>},
     offer |-> {<<<<1087, 1088, 1077, 1076, 1083, 1072, 1075, 1072, 1102, 32, 1091, 1089, 1083, 1091, 1075, 1080>>, <<>>>>,
          <<<<1075, 1086, 1090, 1086, 1074, 32, 1074, 1099, 1087, 1086, 1083, 1085, 1080, 1090, 1100>>, <<>>>>,
          <<<<1075, 1086, 1090, 1086, 1074, 1072, 32, 1074, 1099, 1087, 1086, 1083, 1085, 1080, 1090, 1100>>, <<>>>>,
          <<<<1080, 1097, 1091, 32, 1087, 1086, 1076, 1088, 1072, 1073, 1086, 1090, 1082>>, <<>>>>,
          <<<<1080, 1097, 1091, 32, 1091, 1076, 1072, 1083, 1077, 1085, 1082>>, <<>>>>},
     month |-> {<<<<1074>>, <<1084, 1077, 1089>>>>,
          <<<<1074>>, <<1084, 1077, 1089, 1103, 1094>>>>,
          <<<<1084, 1077, 1089, 1103, 1094>>, <<>>>>,
          <<<<47, 1084, 1077, 1089>>, <<>>>>},
     day |-> {<<<<1074>>, <<1076, 1077, 1085, 1100>>>>,
          <<<<47, 1076>>, <<>>>>,
          <<<<1089, 1091, 1090>>, <<>>>>,
          <<<<1089, 1091, 1090, 1082, 1080>>, <<>>>>},
     hour |-> {<<<<1074>>, <<1095, 1072, 1089>>>>,
          <<<<47, 1095>>, <<>>>>},
     shift |-> {<<<<1089, 1084, 1077, 1085, 1072>>, <<>>>>,
          <<<<1079, 1072>>, <<1089, 1084, 1077, 1085, 1091>>>>},
     rotation |-> {<<<<1074, 1072, 1093, 1090, 1072>>, <<>>>>,
          <<<<1074, 1072, 1093, 1090, 1086, 1074, 1099, 1081>>, <<>>>>}]

\* \b at index k: exactly one of s[k-1], s[k] is a word character
Boundary(s, k) ==
    (k - 1 >= 1 /\ k - 1 <= Len(s) /\ IsWord(s[k - 1]))
        # (k >= 1 /\ k <= Len(s) /\ IsWord(s[k]))

\* the indices after a match of one of the alternatives alts at index i
PatEnds(s, i, alts) ==
    UNION {IF ~StartsWithNoCase(s, i, p[1]) THEN {}
           ELSE IF p[2] = <<>> THEN {i + Len(p[1])}
           ELSE IF StartsWithNoCase(s, RunEnd(s, i + Len(p[1]), IsSpace), p[2])
           THEN {RunEnd(s, i + Len(p[1]), IsSpace) + Len(p[2])}
           ELSE {} : p \in alts}

\* re.compile(r"\b(alts)\b", re.I).search(s)
WordFound(s, alts) ==
    \E i \in 1..Len(s) :
        Boundary(s, i) /\ \E e \in PatEnds(s, i, alts) : Boundary(s, e)

\* re.compile(r"#\s?(alts)\b", re.I).search(s)
TagFound(s, alts) ==
    \E i \in 1..Len(s) :
        /\ s[i] = 35
        /\ \E j \in {i + 1} \cup {k \in {i + 2} : i + 1 <= Len(s) /\ IsSpace(s[i + 1])} :
              \E e \in PatEnds(s, j, alts) : Boundary(s, e)

RE_TAG_RESUME(t) == TagFound(t, TextWords.resume)
RE_TAG_VAC(t) == TagFound(t, TextWords.vac)
RE_NEED(t) == WordFound(t, TextWords.need)
RE_OFFER_SELF(t) == WordFound(t, TextWords.offer)

\* \b\d{1,2}\s*/\s*\d{1,2}\b at index i: the index after the match, 0 when
\* there is none
RatioEnd(s, i) ==
    LET a == RunEnd(s, i, IsDigit)
        j == RunEnd(s, a, IsSpace)
        k == RunEnd(s, j + 1, IsSpace)
        b == RunEnd(s, k, IsDigit)
    IN  IF /\ Boundary(s, i)
           /\ a - i \in {1, 2}
           /\ j <= Len(s)
           /\ s[j] = 47
           /\ b - k \in {1, 2}
           /\ Boundary(s, b)
        THEN b
        ELSE 0

\* re.findall(r"\b\d{1,2}\s*/\s*\d{1,2}\b", s) from index i on
RECURSIVE RatioList(_, _)
RatioList(s, i) ==
    LET M == {j \in i..Len(s) : RatioEnd(s, j) > 0}
    IN  IF M = {} THEN <<>>
        ELSE CHOOSE r \in {<<SubSeq(s, j, RatioEnd(s, j) - 1)>> \o RatioList(s, RatioEnd(s, j)) :
                           j \in {k \in M : \A m \in M : k <= m}} : TRUE

\* RE_ROTATION = \b(вахта|вахтовый)\b|\b(\d{1,2}\s*/\s*\d{1,2})\b
RE_ROTATION(t) == WordFound(t, TextWords.rotation) \/ RatioList(t, 1) # <<>>

\* _period_from_text(t)
_period_from_text(t) ==
    IF WordFound(t, TextWords.month) THEN "month"
    ELSE IF WordFound(t, TextWords.day) THEN "day"
    ELSE IF WordFound(t, TextWords.hour) THEN "hour"
    ELSE IF WordFound(t, TextWords.shift) THEN "shift"
    ELSE IF RE_ROTATION(t) THEN "rotation"
    ELSE "unknown"

\* [A-Za-z0-9]
IsAlnum(c) == c \in 48..57 \/ c \in 65..90 \/ c \in 97..122

\* TG_RE = @([A-Za-z0-9_]{4,}): "@" and group 1 of the first match
TG_RE(t) ==
    LET End(i) == RunEnd(t, i + 1, LAMBDA c : IsAlnum(c) \/ c = 95)
        S == {i \in 1..Len(t) : t[i] = 64 /\ End(i) - (i + 1) >= 4}
    IN  {SubSeq(t, i, End(i) - 1) : i \in {k \in S : \A m \in S : k <= m}}

\* EMAIL_RE = [A-Za-z0-9._%+-]+@[A-Za-z0-9.-]+\.[A-Za-z]{2,} at index i: the
\* index after the match, 0 when there is none. The local part runs up to
\* the "@"; the domain gives back characters up to its last "." that two
\* letters follow
EmailEnd(s, i) ==
    LET a == RunEnd(s, i, LAMBDA c : IsAlnum(c) \/ c \in {46, 95, 37, 43, 45})
        D == RunEnd(s, a + 1, LAMBDA c : IsAlnum(c) \/ c \in {46, 45})
        IsLetter(c) == c \in 65..90 \/ c \in 97..122
        dots == {d \in (a + 2)..(D - 1) :
                    /\ s[d] = 46
                    /\ d + 2 <= Len(s)
                    /\ IsLetter(s[d + 1])
                    /\ IsLetter(s[d + 2])}
    IN  IF a > i /\ a <= Len(s) /\ s[a] = 64 /\ dots # {}
        THEN RunEnd(s, 1 + CHOOSE d \in dots : \A e \in dots : e <= d, IsLetter)
        ELSE 0

\* EMAIL_RE.search(t).group(0)
EMAIL_RE(t) ==
    LET S == {i \in 1..Len(t) : EmailEnd(t, i) > 0}
    IN  {SubSeq(t, i, EmailEnd(t, i) - 1) : i \in {k \in S : \A m \in S : k <= m}}

\* ------------------------------------------------------------------------
\* Bounds and program constants
\* ------------------------------------------------------------------------
\* limit of fetch_batch (BATCH_SIZE is read from the environment)
BATCH_SIZE == 2
\* length, in tokens, of the texts given to sanitize_text on its own
MaxTokens == 3
\* longest list of tags in a model's answer
MaxTags == 2
\* most tokens in a text given to the salary heuristic
MaxSalTokens == 3
\* tokens of a text of the role and rotation heuristics
MaxTextTokens == 3
\* stop_after_attempt(5) of upsert_job
MAX_ATTEMPTS == 5

\* rows the read path may yield: as many as one batch holds
RawIds == 1..BATCH_SIZE
\* no coroutine is running: the event loop is idle
NoTask == 0

\* raw texts of the rows: " " (white space only), "#x" (sanitizes to the empty
\* text) and "x"
RowTexts == {<<SPACE>>, <<HASH, 120>>, <<120>>}

\* confidence in tenths: 0.3 is 3, 1.0 is 10
STUB_CONFIDENCE == 3
CONF_MIN == 0
CONF_MAX == 10
\* confidences a model backend or the validator may return (2.5: above the range)
ModelConfs == {25}
\* errors lists a model backend may return
ModelErrs == {{}}
\* errors lists the validator may return (it is given the current JSON)
ValidatorErrs == {{}, {"fallback"}}

\* the three except branches of call_llm_with_failover
CloudFailKinds == {"limit", "http_other", "exception"}
\* what the salvage regex + json.loads finds in str(e), and whether the
\* salvaged fields pass ParsedItem.model_validate
FragKinds == {"none", "good", "bad"}

\* float("nan") as a confidence (the other confidences are numbers of tenths)
NaN == 1000
\* limit of _canon_list and the score from which it takes the best match
CANON_LIMIT == 8
FUZZY_THRESHOLD == 80
\* the longest description upsert_job writes
DESCRIPTION_MAX == 40000

\* ParsedItem(): every field at its default. An Optional field is a set, {} for
\* None and {v} for a value; a list is a sequence
NoRec ==
    [role |-> "unknown",
     position |-> {},
     salary |-> [min |-> {}, max |-> {}, currency |-> "unknown", period |-> "unknown"],
     employment |-> <<>>,
     schedule |-> <<>>,
     equipment |-> <<>>,
     skills |-> <<>>,
     city |-> [city |-> {}, region |-> {}, country |-> {}],
     contact |-> [phone |-> {}, email |-> {}, telegram |-> {}],
     text_clean |-> <<>>,
     confidence |-> 0,
     errors |-> {}]

\* what the patterns of rule_enrich, of the rules of validate_and_impute and of
\* parse_one find in a text: nothing
NoHints ==
    [hiring |-> FALSE,       \* RE_TAG_VAC.search(t) or RE_NEED.search(t)
     seeking |-> FALSE,      \* RE_TAG_RESUME.search(t) or RE_OFFER_SELF.search(t)
     position |-> {},        \* the position pattern, title-cased
     salary |-> {},          \* the value the salary heuristic accepts
     rub |-> "unknown",      \* _rub_hint(t)
     period |-> "unknown",   \* _period_from_text(t)
     rotation |-> FALSE,     \* RE_ROTATION.search(t)
     ratios |-> <<>>,        \* the D/D ratios of the text
     city |-> {},            \* first RE_LOC match that is a city, title-cased
     region |-> {},          \* else the first RE_LOC match, title-cased
     equipment |-> <<>>,     \* RE_EQUIP matches, upper-cased
     skills |-> <<>>,        \* RE_SKILL matches, upper-cased
     phone |-> {},           \* first PHONE_RE match
     telegram |-> {},        \* first TG_RE match, with "@"
     email |-> {}]           \* first EMAIL_RE match

VARIABLES
    CLOUD_MODEL,          \* a primary (cloud) model is configured
    VALIDATOR_ON,         \* ENABLE_VALIDATOR and VALIDATOR_MODEL
    once,                 \* --once (single pass) or --watch
    rawText,              \* RAW_TEXT_FIELD of each raw row
    FALLBACK_ACTIVATED,   \* the process-wide failover flag
    mainPc,               \* position of main_loop
    preflight,            \* result of cloud_preflight: "none", "ok", "failed"
    batch,                \* raw ids of the current batch
    observed,             \* tasks main_loop has awaited (as_completed)
    running,              \* the task the event loop is running, or NoTask
    pc,                   \* position of each parse_one task
    path,                 \* "none", "model" or "stub": branch of parse_one's try
    parsed,               \* the ParsedItem of each task
    cloudCalls,           \* requests the task's invocation sent to the primary
    localCalls,           \* requests the task's invocation sent to the secondary
    table,                \* rows of PARSED_TABLE
    sanPc, sanIn, sanOut1, sanOut2,  \* sanitize_text applied on its own
    recPc,                \* one record through parse_one: position
    recPath,              \* "none", "model" or "stub"
    recText,              \* its sanitized text (code points)
    hints,                \* what the patterns find in its text
    item,                 \* its ParsedItem
    attempt,              \* failed attempts of the upsert_job call in progress
    chatPc,               \* _ollama_chat on its own: position
    content,              \* the content of the model's response (tokens)
    reply,                \* what _ollama_chat returned or raised
    wPc,                  \* llm/extractor.py: position of main
    checkpoint,           \* the text in the file CHECKPOINT_PATH
    last_id,              \* main's last_id
    wBatch,               \* rows of the batch the for loop has not left
    rawRows,              \* RAW_TABLE: the text of each row, by id
    parsed_jobs,          \* rows of the worker's PARSED_TABLE
    handled,              \* history: how the loop has left each row
    posted,               \* Telegram: the messages of each channel, by id
    updates,              \* Telegram: the updates queued for the bot
    raw_items,            \* the committed rows of public.raw_items
    ingest_cursors,       \* public.ingest_cursors: cursor_text by source
    bot_state,            \* last_update_id of the row of public.bot_state
    runA,                 \* the run of ingest_and_extract.py
    runT,                 \* the run of ingest_telegram.py
    runB,                 \* the run of ingest_bot_poll.py
    jobs,                 \* the committed rows of public.jobs
    runX                  \* the pass of extract_simple.py

cfgVars == <<CLOUD_MODEL, VALIDATOR_ON, once, rawText>>
mainVars == <<mainPc, preflight, batch, observed>>
callVars == <<cloudCalls, localCalls>>
recVars == <<recPc, recPath, recText, hints, item>>
chatVars == <<chatPc, content, reply>>
\* the programs and functions that are run on their own
workerVars == <<wPc, checkpoint, last_id, wBatch, rawRows, parsed_jobs, handled>>
ingestVars == <<posted, updates, raw_items, ingest_cursors, bot_state, runA, runT, runB>>
extractVars == <<jobs, runX>>
extVars == <<chatVars, workerVars, ingestVars, extractVars>>
\* what the actions of main_loop and of parse_one leave alone
restVars == <<sanPc, sanIn, sanOut1, sanOut2, recVars, attempt, extVars>>
vars == <<cfgVars, FALLBACK_ACTIVATED, mainVars, running, pc, path, parsed, callVars,
          table, restVars>>

\* ------------------------------------------------------------------------
\* Record functions
\* ------------------------------------------------------------------------
\* Python's min(a, b) and max(a, b): the first argument unless the second is
\* strictly smaller (larger); every comparison with NaN is false
PyMin(a, b) == IF a # NaN /\ b # NaN /\ b < a THEN b ELSE a
PyMax(a, b) == IF a # NaN /\ b # NaN /\ a < b THEN b ELSE a

\* max(0.0, min(1.0, float(parsed.confidence or 0)))
ClampBelowOnly(c) == PyMax(CONF_MIN, c)
Clamp(c) == PyMax(CONF_MIN, PyMin(CONF_MAX, c))

\* x in lst
InSeq(x, lst) == \E k \in 1..Len(lst) : lst[k] = x

\* if x not in lst: lst.append(x)
AppendNew(lst, x) == IF InSeq(x, lst) THEN lst ELSE Append(lst, x)

\* list(dict.fromkeys(lst)): duplicates removed, first occurrences kept in order
Dedupe(lst) ==
    LET F[i \in 0..Len(lst)] == IF i = 0 THEN <<>> ELSE AppendNew(F[i - 1], lst[i])
    IN  F[Len(lst)]

\* Cyrillic strings are written in Latin transliteration, letter case kept
\* ("вахта" is "vakhta", "Ротация" is "Rotatsiya", "Россия" is "Rossiya").

\* str.lower() on the tags of the model
LowerStr(x) ==
    CASE x = "Full Time" -> "full time"
      [] x = "Rotatsiya" -> "rotatsiya"
      [] OTHER -> x

\* str.strip() on the tags of the model
StripStr(x) ==
    CASE x = " GPS " -> "GPS"
      [] x = " " -> ""
      [] OTHER -> x

\* CANON_EMPLOYMENT.get(el, el)
CANON_EMPLOYMENT(el) ==
    CASE el \in {"polnaya zanyatost", "full time", "full-time"} -> "full_time"
      [] el \in {"chastichnaya", "part time"} -> "part_time"
      [] el \in {"vakhta", "rotatsiya"} -> "rotation"
      [] el = "smena" -> "shift"
      [] el = "kontrakt" -> "contract"
      [] el = "stazhirovka" -> "internship"
      [] el = "temporary" -> "temporary"
      [] OTHER -> el

\* CANON_SCHEDULE.get(sl, sl)
CANON_SCHEDULE_Chained(sl) ==
    CASE sl = "rotatsiya" -> "15/15"
      [] sl = "15/15" -> "vakhta"
      [] OTHER -> sl
CANON_SCHEDULE(sl) ==
    CASE sl \in {"vakhta", "rotatsiya", "15/15", "30/30", "60/30", "45/15"} -> "vakhta"
      [] sl \in {"2/2", "smennyi grafik"} -> "smena"
      [] sl \in {"5/2", "udalenno", "polevaya", "gibkii"} -> sl
      [] OTHER -> sl

CANON_EQUIP == <<"GNSS", "GPS", "RTK", "Takheometr", "Nivelir", "Dron", "BPLA",
                 "Lazernyi skaner", "GIS", "QGIS", "Civil 3D", "Total Station">>
CANON_SKILLS == <<"AutoCAD", "Civil 3D", "Revit", "QGIS", "ArcGIS", "Topo", "CAD",
                  "Python", "SQL", "Metashape", "Photogrammetry">>

\* process.extractOne(v, universe, scorer=fuzz.WRatio) on the tags of the model:
\* an entry of the universe scores 100 with itself and is the only one to;
\* "Тахеометры" is one letter away from "Тахеометр" (ratio 94.7); the other
\* tags of the model ("лопата", "Excel") are far from every entry
ExtractOne(v, universe) ==
    IF InSeq(v, universe) THEN [best |-> v, score |-> 100]
    ELSE IF v = "Takheometry" /\ InSeq("Takheometr", universe)
    THEN [best |-> "Takheometr", score |-> 95]
    ELSE [best |-> universe[1], score |-> 30]

\* _canon_list(values, universe, limit=8)
_canon_list(values, universe) ==
    LET Out[i \in 0..Len(values)] ==
            IF i = 0 THEN <<>>
            ELSE LET prev == Out[i - 1]
                     v == StripStr(values[i])
                     res == ExtractOne(v, universe)
                 IN  IF Len(prev) >= CANON_LIMIT THEN prev
                     ELSE IF v = "" THEN prev
                     ELSE Append(prev, IF res.score >= FUZZY_THRESHOLD THEN res.best ELSE v)
    IN  Dedupe(Out[Len(values)])

CURRENCIES == {"RUB", "KZT", "USD", "EUR", "OTHER", "unknown"}
PERIODS == {"month", "day", "hour", "shift", "rotation", "project", "unknown"}

\* currency after normalize
ClampCurrencyKeep(c) == c
ClampCurrency(c) == IF c \notin CURRENCIES THEN "OTHER" ELSE c

\* normalize(parsed)
normalize(p) ==
    [p EXCEPT
        !.employment = IF @ # <<>>
                       THEN Dedupe([i \in 1..Len(@) |-> CANON_EMPLOYMENT(LowerStr(@[i]))])
                       ELSE @,
        !.schedule = IF @ # <<>>
                     THEN Dedupe([i \in 1..Len(@) |-> CANON_SCHEDULE(LowerStr(@[i]))])
                     ELSE @,
        !.equipment = _canon_list(@, CANON_EQUIP),
        !.skills = _canon_list(@, CANON_SKILLS),
        !.salary.currency = ClampCurrency(@),
        !.salary.period = IF @ \notin PERIODS THEN "unknown" ELSE @,
        !.confidence = Clamp(@)]

\* the value of an Optional field that is set
ValueOf(opt) == CHOOSE x \in opt : TRUE
\* truth value of an Optional[int]: None and 0 are false
Truthy(opt) == opt # {} /\ opt # {0}

\* Salary._fix_range (model_validator, mode="after")
_fix_range_none(sal) == sal
_fix_range(sal) ==
    IF sal.min # {} /\ sal.max # {} /\ ValueOf(sal.min) > ValueOf(sal.max)
    THEN [sal EXCEPT !.min = sal.max, !.max = sal.min]
    ELSE sal

\* a JSON object passes ParsedItem.model_validate: its confidence is a number
\* or a string that parses as one (NaN included), not any other text
SchemaValid(j) == j.confidence.kind \in {"number", "nan"}

\* ParsedItem.model_validate(j), for a JSON object that passes it
model_validate(j) ==
    [j EXCEPT !.salary = _fix_range(@),
              !.confidence = IF @.kind = "nan" THEN NaN ELSE @.value]

\* the JSON object {}: validation gives every field its default
EmptyJson == [NoRec EXCEPT !.confidence = [kind |-> "number", value |-> 0]]

\* rule_enrich(parsed, text), h being what its patterns find in the text
rule_enrich(p, h) ==
    LET p1 == IF p.role # "unknown" THEN p
              ELSE IF h.hiring THEN [p EXCEPT !.role = "employer"]
              ELSE IF h.seeking THEN [p EXCEPT !.role = "candidate"]
              ELSE p
        p2 == IF p1.position = {} /\ h.position # {}
              THEN [p1 EXCEPT !.position = h.position] ELSE p1
        p3 == IF p2.salary.min = {} /\ p2.salary.max = {} /\ h.salary # {}
              THEN [p2 EXCEPT !.salary.min = h.salary,
                              !.salary.max = {},
                              !.salary.currency = IF @ = "unknown" THEN h.rub ELSE @,
                              !.salary.period = IF @ = "unknown" THEN h.period ELSE @]
              ELSE p2
        sched == AppendNew(p3.schedule, "vakhta")
        WithRatios[i \in 0..Len(h.ratios)] ==
            IF i = 0 THEN sched ELSE AppendNew(WithRatios[i - 1], h.ratios[i])
        p4 == IF h.rotation
              THEN [p3 EXCEPT !.employment = AppendNew(@, "rotation"),
                              !.schedule = WithRatios[Len(h.ratios)]]
              ELSE p3
        p5 == IF p4.city.city = {} /\ p4.city.region = {} /\ (h.city # {} \/ h.region # {})
              THEN [p4 EXCEPT !.city.city = IF h.city # {} THEN h.city ELSE @,
                              !.city.region = IF h.city # {} THEN @ ELSE h.region,
                              !.city.country = IF @ = {} THEN {"Rossiya"} ELSE @]
              ELSE p4
        p6 == IF h.equipment # <<>> /\ p5.equipment = <<>>
              THEN [p5 EXCEPT !.equipment = h.equipment] ELSE p5
        p7 == IF h.skills # <<>> /\ p6.skills = <<>>
              THEN [p6 EXCEPT !.skills = h.skills] ELSE p6
        p8 == IF p7.contact.phone = {} /\ p7.contact.telegram = {} /\ p7.contact.email = {}
              THEN [p7 EXCEPT !.contact.phone = h.phone,
                              !.contact.telegram = h.telegram,
                              !.contact.email = h.email]
              ELSE p7
    IN  normalize(p8)

\* CITY_TO_REGION_COUNTRY.get(c): <<region, country>>, <<>> when c is no key
CITY_TO_REGION_COUNTRY(c) ==
    CASE c \in {"Moskva", "Sankt-Peterburg"} -> <<c, "Rossiya">>
      [] c \in {"Belokamenka", "Murmansk"} -> <<"Murmanskaya oblast", "Rossiya">>
      [] c = "Novyi Urengoi" -> <<"Yamalo-Nenetskii AO", "Rossiya">>
      [] c = "Astrakhan" -> <<"Astrakhanskaya oblast", "Rossiya">>
      [] c = "Sheregesh" -> <<"Kemerovskaya oblast", "Rossiya">>
      [] OTHER -> <<>>

\* str.title() on the city names of the model
TitleStr(x) == IF x = "moskva" THEN "Moskva" ELSE x

rule_impute_geo_overwrite(p) ==
    LET hit == IF p.city.city = {} THEN <<>> ELSE CITY_TO_REGION_COUNTRY(ValueOf(p.city.city))
    IN  IF hit # <<>>
        THEN [p EXCEPT !.city.region = {hit[1]}, !.city.country = {hit[2]}]
        ELSE p
rule_impute_geo(p) ==
    LET c == ValueOf(p.city.city)
        hit == IF p.city.city = {} THEN <<>>
               ELSE IF CITY_TO_REGION_COUNTRY(c) # <<>> THEN CITY_TO_REGION_COUNTRY(c)
               ELSE CITY_TO_REGION_COUNTRY(TitleStr(c))
        p1 == IF hit # <<>>
              THEN [p EXCEPT !.city.region = IF @ = {} THEN {hit[1]} ELSE @,
                             !.city.country = IF @ = {} THEN {hit[2]} ELSE @]
              ELSE p
    IN  IF p1.city.city # {} /\ p1.city.country = {}
        THEN [p1 EXCEPT !.city.country = {"Rossiya"}]
        ELSE p1

rule_impute_schedule(p, h) ==
    IF h.ratios # <<>>
    THEN [p EXCEPT !.schedule = AppendNew(@, "vakhta"),
                   !.employment = AppendNew(@, "rotation")]
    ELSE p

rule_fix_salary(p, h) ==
    LET s1 == [p.salary EXCEPT !.currency = IF @ = "unknown" THEN h.rub ELSE @,
                               !.period = IF @ = "unknown" THEN h.period ELSE @]
        s2 == IF Truthy(s1.min) /\ Truthy(s1.max) /\ ValueOf(s1.min) > ValueOf(s1.max)
              THEN [s1 EXCEPT !.min = s1.max, !.max = s1.min]
              ELSE s1
    IN  [p EXCEPT !.salary = s2]

\* the three deterministic rules of validate_and_impute
rule_repair(p, h) == rule_fix_salary(rule_impute_schedule(rule_impute_geo(p), h), h)

\* parse_one, before upsert_job: contacts are read from the text when the
\* record has none
ContactNet(p, h) ==
    IF p.contact.phone = {} /\ p.contact.email = {} /\ p.contact.telegram = {}
    THEN [p EXCEPT !.contact.phone = h.phone,
                   !.contact.email = h.email,
                   !.contact.telegram = h.telegram]
    ELSE p

\* the stub of parse_one's except branch, built over the fields of the JSON
\* object j salvaged from str(e) ({}: every field at its default) and the
\* sanitized text, validated
Stub(j, text) ==
    model_validate([j EXCEPT !.text_clean = text,
                             !.confidence = [kind |-> "number", value |-> STUB_CONFIDENCE],
                             !.errors = {"fallback"}])
\* the stub over {}, but for its text_clean
StubRecord == Stub(EmptyJson, <<>>)

\* the item a model backend or the validator returns in the pipeline
\* specification: confidence c, errors e, the other fields at their defaults
Item(c, e) == [NoRec EXCEPT !.confidence = c, !.errors = e]

\* PHONE_RE.search(t).group(0)
FirstPhone(t) ==
    LET S == PhoneSpans(t, 1)
    IN  IF S = {} THEN {}
        ELSE LET m == CHOOSE x \in S : \A y \in S : x[1] <= y[1]
             IN  {SubSeq(t, m[1], m[2] - 1)}

\* what the patterns find in a text made of digits, white space, "+", "-",
\* "." and the letters of "зп", "к", "т.р", "x": the other patterns need
\* a "#", "@" or "/" or a word that these letters cannot spell
Features(t) ==
    [NoHints EXCEPT !.salary = SalaryFromText(t),
                    !.rub = _rub_hint(t),
                    !.phone = FirstPhone(t)]

\* clean_str(s, maxlen) of a string
clean_str(s, maxlen) == IF Len(s) > maxlen THEN SubSeq(s, 1, maxlen) ELSE s

\* rec["description"] of upsert_job, the first part of its dedup_hash source
Description(p) == clean_str(p.text_clean, DESCRIPTION_MAX)

\* rec of upsert_job: the row written to PARSED_TABLE (errors is no column)
Rec(r, p) == [raw_item_id |-> r, confidence |-> p.confidence]

RowsOf(tbl, r) == {x \in tbl : x.raw_item_id = r}

\* sb.table(PARSED_TABLE).upsert(rec, on_conflict="raw_item_id")
UpsertInsertOnly(tbl, rec) == tbl \cup {rec}
Upsert(tbl, rec) == {x \in tbl : x.raw_item_id # rec.raw_item_id} \cup {rec}

\* raw_text.strip() then sanitize_text, for each text a row can hold
CleanText == [t \in RowTexts |-> sanitize_text(Strip(t))]
\* text of parse_one(row)
TextOf(r) == CleanText[rawText[r]]
\* what the patterns find in text
RowFeatures == [t \in RowTexts |-> Features(CleanText[t])]

\* ------------------------------------------------------------------------
\* Initial state
\* ------------------------------------------------------------------------
ChatIdle ==
    /\ chatPc = "off"
    /\ content = <<>>
    /\ reply = <<>>

WorkerIdle ==
    /\ wPc = "off"
    /\ checkpoint = <<>>
    /\ last_id = 0
    /\ wBatch = {}
    /\ rawRows = <<>>
    /\ parsed_jobs = {}
    /\ handled = <<>>

\* the locals of ingest_and_extract.py, of ingest_telegram.py and of
\* ingest_bot_poll.py when they do not run
NoRunA == [pc |-> "off", ch |-> 0, last_id |-> 0, next |-> 0, new_cnt |-> 0, pending |-> {}]
NoRunT == [pc |-> "off", sid |-> 0, min_id |-> {}, next |-> 0, newest_seen |-> 0]
NoRunB == [pc |-> "off", fetched |-> <<>>, i |-> 0, total_new |-> 0, max_update_id |-> 0,
           pending |-> {}]

IngestIdle ==
    /\ posted = <<>>
    /\ updates = <<>>
    /\ raw_items = {}
    /\ ingest_cursors = <<>>
    /\ bot_state = {}
    /\ runA = NoRunA
    /\ runT = NoRunT
    /\ runB = NoRunB

\* the locals of main of extract_simple.py when it does not run
NoRunX == [pc |-> "off", rows |-> <<>>, i |-> 0, inserted |-> 0, pending |-> {},
           aborted |-> FALSE]

ExtractIdle ==
    /\ jobs = {}
    /\ runX = NoRunX

ExtIdle ==
    /\ ChatIdle
    /\ WorkerIdle
    /\ IngestIdle
    /\ ExtractIdle

RecIdle ==
    /\ recPc = "off"
    /\ recPath = "none"
    /\ recText = <<>>
    /\ hints = NoHints
    /\ item = NoRec

SanIdle ==
    /\ sanPc = "off"
    /\ sanIn = <<>>
    /\ sanOut1 = <<>>
    /\ sanOut2 = <<>>
    /\ RecIdle

Init ==
    /\ CLOUD_MODEL \in BOOLEAN
    /\ VALIDATOR_ON \in BOOLEAN
    /\ once \in BOOLEAN
    /\ rawText \in [RawIds -> RowTexts]
    /\ FALLBACK_ACTIVATED = FALSE
    /\ mainPc = "start"
    /\ preflight = "none"
    /\ batch = {}
    /\ observed = {}
    /\ running = NoTask
    /\ pc = [r \in RawIds |-> "idle"]
    /\ path = [r \in RawIds |-> "none"]
    /\ parsed = [r \in RawIds |-> NoRec]
    /\ cloudCalls = [r \in RawIds |-> 0]
    /\ localCalls = [r \in RawIds |-> 0]
    /\ table = {}
    /\ attempt = 0
    /\ SanIdle
    /\ ExtIdle

\* ------------------------------------------------------------------------
\* main_loop
\* ------------------------------------------------------------------------
\* positions at which a task is suspended in an await, or has ended
Awaiting == {"cloud", "local", "vprobe", "vcall"}
Ended == {"skipped", "persisted", "raised"}
\* a task has settled when it has ended; main_loop has then awaited it
\* ("joined") or has caught and logged its exception ("logged")
Settled(r) == pc[r] \in Ended \cup {"joined", "logged"}

\* main_loop runs only while no task does (one thread, cooperative)
MainTurn == running = NoTask

\* main_loop start: the preflight is made only with a cloud model configured
MainStart ==
    /\ MainTurn
    /\ mainPc = "start"
    /\ mainPc' = IF CLOUD_MODEL /\ ~FALLBACK_ACTIVATED THEN "preflight" ELSE "fetch"
    /\ UNCHANGED <<cfgVars, FALLBACK_ACTIVATED, preflight, batch, observed, running,
                   pc, path, parsed, callVars, table, restVars>>

\* the flag after cloud_preflight returned ok
FlagAfterPreflightKeep(ok) == FALLBACK_ACTIVATED
FlagAfterPreflight(ok) == IF ok THEN FALLBACK_ACTIVATED ELSE TRUE

\* ok = await cloud_preflight(); if not ok: FALLBACK_ACTIVATED = True
PreflightDone(ok) ==
    /\ MainTurn
    /\ mainPc = "preflight"
    /\ preflight' = IF ok THEN "ok" ELSE "failed"
    /\ FALLBACK_ACTIVATED' = FlagAfterPreflight(ok)
    /\ mainPc' = "fetch"
    /\ UNCHANGED <<cfgVars, batch, observed, running, pc, path, parsed, callVars,
                   table, restVars>>

\* if once: break, at the end of a pass of the while loop: after a fetch that
\* raised, after an empty batch, after a batch was processed
AfterPassLoop(o) == "fetch"
AfterPass(o) == IF o THEN "exit" ELSE "fetch"

\* fetch_batch raised (its retries are exhausted), or returned no row
FetchNothing ==
    /\ MainTurn
    /\ mainPc = "fetch"
    /\ mainPc' = AfterPass(once)
    /\ UNCHANGED <<cfgVars, FALLBACK_ACTIVATED, preflight, batch, observed, running,
                   pc, path, parsed, callVars, table, restVars>>

\* fetch_batch returned the rows B; a parse_one coroutine is made for each
FetchBatch(B) ==
    /\ MainTurn
    /\ mainPc = "fetch"
    /\ B # {}
    /\ Cardinality(B) <= BATCH_SIZE
    /\ batch' = B
    /\ observed' = {}
    /\ pc' = [r \in RawIds |-> IF r \in B THEN "received" ELSE "idle"]
    /\ mainPc' = "await"
    /\ UNCHANGED <<cfgVars, FALLBACK_ACTIVATED, preflight, running, path, parsed,
                   callVars, table, restVars>>

\* main_loop after "await fut" raised: the except clause logs and goes on
OnTaskRaisedNoCatch == "crashed"
OnTaskRaised == "await"

\* for fut in asyncio.as_completed(coros): try: await fut except Exception
AwaitTask(r) ==
    /\ MainTurn
    /\ mainPc = "await"
    /\ r \in batch \ observed
    /\ pc[r] \in Ended
    /\ observed' = observed \cup {r}
    /\ pc' = [pc EXCEPT ![r] = IF pc[r] = "raised" THEN "logged" ELSE "joined"]
    /\ mainPc' = IF pc[r] = "raised" THEN OnTaskRaised ELSE "await"
    /\ UNCHANGED <<cfgVars, FALLBACK_ACTIVATED, preflight, batch, running, path,
                   parsed, callVars, table, restVars>>

\* the as_completed loop is over: "batch processed" is reported
BatchReported ==
    /\ MainTurn
    /\ mainPc = "await"
    /\ observed = batch
    /\ mainPc' = "reported"
    /\ UNCHANGED <<cfgVars, FALLBACK_ACTIVATED, preflight, batch, observed, running,
                   pc, path, parsed, callVars, table, restVars>>

\* if once: break
AfterReport ==
    /\ MainTurn
    /\ mainPc = "reported"
    /\ mainPc' = AfterPass(once)
    /\ UNCHANGED <<cfgVars, FALLBACK_ACTIVATED, preflight, batch, observed, running,
                   pc, path, parsed, callVars, table, restVars>>


\* ------------------------------------------------------------------------
\* parse_one: one task per row of the batch
\* ------------------------------------------------------------------------
\* the event loop resumes task r, or r is the task that is running
Turn(r) == mainPc = "await" /\ r \in batch /\ running \in {NoTask, r}

\* the task keeps the thread until it awaits or ends
RunAfter(r, newPc) == IF newPc \in Awaiting \cup Ended THEN NoTask ELSE r

\* the task moves to newPc; when it ends, its locals are gone
Goto(r, newPc) ==
    /\ pc' = [pc EXCEPT ![r] = newPc]
    /\ running' = RunAfter(r, newPc)

DropLocals(r) ==
    /\ path' = [path EXCEPT ![r] = "none"]
    /\ parsed' = [parsed EXCEPT ![r] = NoRec]

\* if not text: return
NoTextNever(t) == FALSE
NoText(t) == t = <<>>

\* text = sanitize_text(raw_text); if not text: return
Sanitize(r) ==
    /\ Turn(r)
    /\ pc[r] = "received"
    /\ Goto(r, IF NoText(TextOf(r)) THEN "skipped" ELSE "sanitized")
    /\ UNCHANGED <<cfgVars, FALLBACK_ACTIVATED, mainVars, path, parsed, callVars,
                   table, restVars>>

\* call_llm_with_failover: if CLOUD_MODEL and not FALLBACK_ACTIVATED
UsePrimaryIgnoringFlag == CLOUD_MODEL
UsePrimary == CLOUD_MODEL /\ ~FALLBACK_ACTIVATED

\* call_llm_with_failover is entered: the request goes to one backend
StartLLM(r) ==
    /\ Turn(r)
    /\ pc[r] = "sanitized"
    /\ IF UsePrimary
       THEN /\ Goto(r, "cloud")
            /\ cloudCalls' = [cloudCalls EXCEPT ![r] = @ + 1]
            /\ UNCHANGED localCalls
       ELSE /\ Goto(r, "local")
            /\ localCalls' = [localCalls EXCEPT ![r] = @ + 1]
            /\ UNCHANGED cloudCalls
    /\ UNCHANGED <<cfgVars, FALLBACK_ACTIVATED, mainVars, path, parsed, table, restVars>>

\* call_llm_with_failover returns or raises: its locals are gone
InvocationEnds(r) ==
    /\ cloudCalls' = [cloudCalls EXCEPT ![r] = 0]
    /\ localCalls' = [localCalls EXCEPT ![r] = 0]

\* the model call returned JSON, with confidence c and errors e, that passes
\* ParsedItem.model_validate
TaskExtracted(r, c, e) ==
    /\ Goto(r, "extracted")
    /\ path' = [path EXCEPT ![r] = "model"]
    /\ parsed' = [parsed EXCEPT ![r] = Item(c, e)]

\* ParsedItem.model_validate(llm_json) raised: parse_one's except branch is
\* entered with a ValidationError
TaskSchemaInvalid(r) ==
    /\ Goto(r, "except_schema")
    /\ UNCHANGED <<path, parsed>>

\* the primary call returned a JSON object
CloudOk(r) ==
    /\ Turn(r)
    /\ pc[r] = "cloud"
    /\ \/ \E c \in ModelConfs, e \in ModelErrs : TaskExtracted(r, c, e)
       \/ TaskSchemaInvalid(r)
    /\ InvocationEnds(r)
    /\ UNCHANGED <<cfgVars, FALLBACK_ACTIVATED, mainVars, table, restVars>>

\* the flag after the primary call failed in the way kind
FlagAfterCloudFailureLimitOnly(kind) == FALLBACK_ACTIVATED \/ kind = "limit"
FlagAfterCloudFailure(kind) == TRUE

\* the primary call failed: the flag is set and the secondary is called
CloudFail(r, kind) ==
    /\ Turn(r)
    /\ pc[r] = "cloud"
    /\ FALLBACK_ACTIVATED' = FlagAfterCloudFailure(kind)
    /\ Goto(r, "local")
    /\ localCalls' = [localCalls EXCEPT ![r] = @ + 1]
    /\ UNCHANGED <<cfgVars, mainVars, path, parsed, cloudCalls, table, restVars>>

\* the secondary call returned a JSON object
LocalOk(r) ==
    /\ Turn(r)
    /\ pc[r] = "local"
    /\ \/ \E c \in ModelConfs, e \in ModelErrs : TaskExtracted(r, c, e)
       \/ TaskSchemaInvalid(r)
    /\ InvocationEnds(r)
    /\ UNCHANGED <<cfgVars, FALLBACK_ACTIVATED, mainVars, table, restVars>>

\* the secondary call raised: call_llm_with_failover raises into parse_one's
\* except branch
LocalFail(r) ==
    /\ Turn(r)
    /\ pc[r] = "local"
    /\ Goto(r, "except_call")
    /\ InvocationEnds(r)
    /\ UNCHANGED <<cfgVars, FALLBACK_ACTIVATED, mainVars, path, parsed, table, restVars>>

\* what the salvage of parse_one's except branch can find in str(e): nothing
\* that parses when the call raised (an httpx, RuntimeError or JSONDecodeError
\* message holds no JSON object); any fragment when it is a ValidationError,
\* whose message quotes the offending input values
SalvagedFrags(pcv) == IF pcv = "except_call" THEN {"none"} ELSE FragKinds

\* parsed = ParsedItem.model_validate(stub): a salvaged field of the wrong type
\* makes it raise inside the handler, out of parse_one
StubPc(frag) == IF frag = "bad" THEN "raised" ELSE "stub"

\* parse_one's except branch: salvage, build the stub, validate it
BuildStub(r, frag) ==
    /\ Turn(r)
    /\ pc[r] \in {"except_call", "except_schema"}
    /\ frag \in SalvagedFrags(pc[r])
    /\ Goto(r, StubPc(frag))
    /\ IF StubPc(frag) = "raised"
       THEN DropLocals(r)
       ELSE /\ path' = [path EXCEPT ![r] = "stub"]
            /\ parsed' = [parsed EXCEPT ![r] = [StubRecord EXCEPT !.text_clean = TextOf(r)]]
    /\ UNCHANGED <<cfgVars, FALLBACK_ACTIVATED, mainVars, callVars, table, restVars>>

\* parsed = normalize(parsed); parsed = rule_enrich(parsed, text)
Enrich(r) ==
    /\ Turn(r)
    /\ pc[r] \in {"extracted", "stub"}
    /\ parsed' = [parsed EXCEPT ![r] = rule_enrich(normalize(@), RowFeatures[rawText[r]])]
    /\ Goto(r, "enriched")
    /\ UNCHANGED <<cfgVars, FALLBACK_ACTIVATED, mainVars, path, callVars, table, restVars>>

\* validate_and_impute: the rules, then _validator_available, which returns
\* False at once when the validator is not configured
ValidateRules(r) ==
    /\ Turn(r)
    /\ pc[r] = "enriched"
    /\ parsed' = [parsed EXCEPT ![r] = rule_repair(@, RowFeatures[rawText[r]])]
    /\ Goto(r, IF VALIDATOR_ON THEN "vprobe" ELSE "validated")
    /\ UNCHANGED <<cfgVars, FALLBACK_ACTIVATED, mainVars, path, callVars, table, restVars>>

\* the validator's probe answered
ValidatorProbe(r, ok) ==
    /\ Turn(r)
    /\ pc[r] = "vprobe"
    /\ Goto(r, IF ok THEN "vcall" ELSE "validated")
    /\ UNCHANGED <<cfgVars, FALLBACK_ACTIVATED, mainVars, path, parsed, callVars,
                   table, restVars>>

\* p2 = await call_validator_llm_async(p, text); p2 = normalize(p2); return p2
ValidatorResultRaw(p, p2) == p2
ValidatorResult(p, p2) == normalize(p2)

\* the validator call returned a record that passes model_validate
ValidatorOk(r, c, e) ==
    /\ Turn(r)
    /\ pc[r] = "vcall"
    /\ parsed' = [parsed EXCEPT ![r] = ValidatorResult(@, Item(c, e))]
    /\ Goto(r, "validated")
    /\ UNCHANGED <<cfgVars, FALLBACK_ACTIVATED, mainVars, path, callVars, table, restVars>>

\* validate_and_impute's except clause: the rule-repaired record is returned
ValidatorFailurePcRaise == "raised"
ValidatorFailurePc == "validated"

\* the validator call, or model_validate of its answer, raised
ValidatorFail(r) ==
    /\ Turn(r)
    /\ pc[r] = "vcall"
    /\ Goto(r, ValidatorFailurePc)
    /\ IF ValidatorFailurePc \in Ended THEN DropLocals(r) ELSE UNCHANGED <<path, parsed>>
    /\ UNCHANGED <<cfgVars, FALLBACK_ACTIVATED, mainVars, callVars, table, restVars>>

\* upsert_job is called once validate_and_impute has returned
CanPersistEarly(r) == pc[r] \in {"enriched", "validated"}
CanPersist(r) == pc[r] = "validated"

\* upsert_job: one of its attempts (at most 5) succeeds and writes the row
PersistOk(r) ==
    /\ Turn(r)
    /\ CanPersist(r)
    /\ table' = Upsert(table, Rec(r, parsed[r]))
    /\ Goto(r, "persisted")
    /\ DropLocals(r)
    /\ UNCHANGED <<cfgVars, FALLBACK_ACTIVATED, mainVars, callVars, restVars>>

\* upsert_job: every attempt failed, tenacity raises out of parse_one
PersistFail(r) ==
    /\ Turn(r)
    /\ CanPersist(r)
    /\ Goto(r, "raised")
    /\ DropLocals(r)
    /\ UNCHANGED <<cfgVars, FALLBACK_ACTIVATED, mainVars, callVars, table, restVars>>

TaskNext(r) ==
    \/ Sanitize(r)
    \/ StartLLM(r)
    \/ CloudOk(r)
    \/ \E kind \in CloudFailKinds : CloudFail(r, kind)
    \/ LocalOk(r)
    \/ LocalFail(r)
    \/ \E frag \in FragKinds : BuildStub(r, frag)
    \/ Enrich(r)
    \/ ValidateRules(r)
    \/ \E ok \in BOOLEAN : ValidatorProbe(r, ok)
    \/ \E c \in ModelConfs, e \in ValidatorErrs : ValidatorOk(r, c, e)
    \/ ValidatorFail(r)
    \/ PersistOk(r)
    \/ PersistFail(r)

MainNext ==
    \/ MainStart
    \/ \E ok \in BOOLEAN : PreflightDone(ok)
    \/ FetchNothing
    \/ \E B \in SUBSET RawIds : FetchBatch(B)
    \/ \E r \in RawIds : AwaitTask(r)
    \/ BatchReported
    \/ AfterReport

Next ==
    \/ MainNext
    \/ \E r \in RawIds : TaskNext(r)

Spec == Init /\ [][Next]_vars

\* the same program while the event loop keeps running and every external call
\* (preflight, fetch, model, validator, upsert) returns or times out: a step
\* that can be taken is eventually taken
SpecLive == Init /\ [][Next]_vars /\ WF_vars(Next)

\* ------------------------------------------------------------------------
\* upsert_job attempt by attempt: @retry(wait=wait_exponential_jitter(...),
\* stop=stop_after_attempt(5)). upsert_job is a plain function called from the
\* coroutine: between its attempts tenacity sleeps in the thread, so no other
\* task and not main_loop runs until it returns or raises
\* ------------------------------------------------------------------------
\* stop_after_attempt: n attempts have been made
RetryStopsLate(n) == n >= MAX_ATTEMPTS + 1
RetryStops(n) == n >= MAX_ATTEMPTS

\* one attempt of upsert_job(row, parsed): it writes the row, or it raises and
\* tenacity either retries or, the attempts exhausted, raises RetryError
UpsertAttempt(r, ok) ==
    /\ Turn(r)
    /\ CanPersist(r)
    /\ IF ok
       THEN /\ table' = Upsert(table, Rec(r, parsed[r]))
            /\ Goto(r, "persisted")
            /\ DropLocals(r)
            /\ attempt' = 0
       ELSE IF RetryStops(attempt + 1)
       THEN /\ Goto(r, "raised")
            /\ DropLocals(r)
            /\ attempt' = 0
            /\ UNCHANGED table
       ELSE /\ attempt' = attempt + 1
            /\ running' = r
            /\ UNCHANGED <<pc, path, parsed, table>>
    /\ UNCHANGED <<cfgVars, FALLBACK_ACTIVATED, mainVars, callVars,
                   sanPc, sanIn, sanOut1, sanOut2, recVars, extVars>>

\* the pipeline with a local model only and no validator
PersistInit == Init /\ ~CLOUD_MODEL /\ ~VALIDATOR_ON

PersistNext ==
    \/ MainStart
    \/ FetchNothing
    \/ \E B \in SUBSET RawIds : FetchBatch(B)
    \/ \E r \in RawIds : AwaitTask(r)
    \/ BatchReported
    \/ AfterReport
    \/ \E r \in RawIds :
          \/ Sanitize(r)
          \/ StartLLM(r)
          \/ LocalOk(r)
          \/ LocalFail(r)
          \/ \E frag \in FragKinds : BuildStub(r, frag)
          \/ Enrich(r)
          \/ ValidateRules(r)
          \/ \E ok \in BOOLEAN : UpsertAttempt(r, ok)

SpecPersist == PersistInit /\ [][PersistNext]_vars

\* ------------------------------------------------------------------------
\* sanitize_text on its own: applied once, then to its own output
\* ------------------------------------------------------------------------
\* pieces the input texts are made of: "#", "x", " ", tab, newline,
\* "переслано от" and "http://"
SanTokens == {<<HASH>>, <<120>>, <<SPACE>>, <<TAB>>, <<NL>>, BannerLit,
              HttpLit \o SchemeSepLit}

RECURSIVE Flatten(_)
Flatten(ts) == IF ts = <<>> THEN <<>> ELSE Head(ts) \o Flatten(Tail(ts))

SanInputs == {Flatten(ts) : ts \in UNION {[1..n -> SanTokens] : n \in 0..MaxTokens}}

\* the pipeline is not started
PipelineOff ==
    /\ CLOUD_MODEL = FALSE
    /\ VALIDATOR_ON = FALSE
    /\ once = TRUE
    /\ rawText = [r \in RawIds |-> <<>>]
    /\ FALLBACK_ACTIVATED = FALSE
    /\ mainPc = "off"
    /\ preflight = "none"
    /\ batch = {}
    /\ observed = {}
    /\ running = NoTask
    /\ pc = [r \in RawIds |-> "idle"]
    /\ path = [r \in RawIds |-> "none"]
    /\ parsed = [r \in RawIds |-> NoRec]
    /\ cloudCalls = [r \in RawIds |-> 0]
    /\ localCalls = [r \in RawIds |-> 0]
    /\ table = {}
    /\ attempt = 0

pipeVars == <<cfgVars, FALLBACK_ACTIVATED, mainVars, running, pc, path, parsed,
              callVars, table, attempt, extVars>>

SanInit ==
    /\ PipelineOff
    /\ ExtIdle
    /\ RecIdle
    /\ sanPc = "input"
    /\ sanIn \in SanInputs
    /\ sanOut1 = <<>>
    /\ sanOut2 = <<>>

\* sanitize_text(t)
SanOnce ==
    /\ sanPc = "input"
    /\ sanOut1' = sanitize_text(sanIn)
    /\ sanPc' = "once"
    /\ UNCHANGED <<sanIn, sanOut2, recVars, pipeVars>>

\* sanitize_text(sanitize_text(t))
SanTwice ==
    /\ sanPc = "once"
    /\ sanOut2' = sanitize_text(sanOut1)
    /\ sanPc' = "twice"
    /\ UNCHANGED <<sanIn, sanOut1, recVars, pipeVars>>

SanNext == SanOnce \/ SanTwice

SpecSanitize == SanInit /\ [][SanNext]_vars

\* ------------------------------------------------------------------------
\* One record through parse_one, field by field: what the model, the stub,
\* the rules and the validator make of it before upsert_job receives it
\* ------------------------------------------------------------------------
SeqsUpTo(T, n) == UNION {[1..k -> T] : k \in 0..n}

\* values of the fields of the JSON objects a model can answer with
RawValues ==
    [amounts |-> {{}, {0}, {200000}, {250000}},
     currencies |-> {"unknown", "RUB", "BTC"},
     periods |-> {"unknown", "month", "week"},
     roles |-> {"unknown", "employer", "candidate", "hr"},
     confidences |->
         {[kind |-> "number", value |-> c] : c \in {0 - 5, 3, 25}}
             \cup {[kind |-> "nan", value |-> 0], [kind |-> "text", value |-> 0]},
     employment |-> {"Full Time", "full_time", "vakhta"},
     schedule |-> {"Rotatsiya", "vakhta", "15/15", "5/2"},
     equipment |-> {"GPS", " GPS ", " ", "Takheometry", "lopata"},
     skills |-> {"QGIS", "Excel"}]
\* lists of nine distinct tags: employment tags that CANON_EMPLOYMENT leaves as
\* they are, equipment tags that are entries of CANON_EQUIP
LongLists ==
    [employment |-> <<"full_time", "part_time", "rotation", "shift", "contract",
                      "internship", "temporary", "remote", "project">>,
     equipment |-> <<"GNSS", "GPS", "RTK", "Takheometr", "Nivelir", "Dron", "BPLA",
                     "GIS", "QGIS">>]
PhoneLit == <<43, 55, 32, 57, 57, 57, 32, 49, 50, 51, 45, 52, 53, 45, 54, 55>>
TelegramLit == <<64, 103, 101, 111, 95, 104, 114>>

\* JSON objects a model can answer with; each differs from the empty object
\* in one group of fields
RawItems ==
    {[EmptyJson EXCEPT !.salary.min = a, !.salary.max = b] : a, b \in RawValues.amounts}
    \cup {[EmptyJson EXCEPT !.salary.currency = c, !.salary.period = d,
                            !.salary.min = a] :
              c \in RawValues.currencies, d \in RawValues.periods, a \in {{}, {200000}}}
    \cup {[EmptyJson EXCEPT !.role = x, !.position = y, !.confidence = c] :
              x \in RawValues.roles, y \in {{}, {"Geodezist"}}, c \in RawValues.confidences}
    \cup {[EmptyJson EXCEPT !.employment = l] : l \in SeqsUpTo(RawValues.employment, MaxTags)}
    \cup {[EmptyJson EXCEPT !.schedule = l] : l \in SeqsUpTo(RawValues.schedule, MaxTags)}
    \cup {[EmptyJson EXCEPT !.equipment = l] : l \in SeqsUpTo(RawValues.equipment, MaxTags)}
    \cup {[EmptyJson EXCEPT !.skills = l] : l \in SeqsUpTo(RawValues.skills, MaxTags)}
    \cup {[EmptyJson EXCEPT !.employment = LongLists.employment],
          [EmptyJson EXCEPT !.equipment = LongLists.equipment]}
    \cup {[EmptyJson EXCEPT !.city = [city |-> c, region |-> g, country |-> k]] :
              c \in {{}, {"Moskva"}, {"moskva"}, {"Tver"}}, g \in {{}, {"Tverskaya oblast"}},
              k \in {{}, {"Kazakhstan"}}}
    \cup {[EmptyJson EXCEPT !.contact.phone = ph, !.contact.telegram = tg] :
              ph \in {{}, {PhoneLit}}, tg \in {{}, {TelegramLit}}}

\* what the patterns find in texts of five kinds: nothing; a salary in
\* roubles a month; a rotation with its ratio; a vacancy with its position,
\* place, equipment, skills and contacts; all of these and a resume marker
AbstractHints ==
    LET HSalary == [NoHints EXCEPT !.salary = {150000}, !.rub = "RUB", !.period = "month"]
        HRotation == [NoHints EXCEPT !.rotation = TRUE, !.ratios = <<"30/30">>,
                                     !.period = "rotation"]
        HVacancy ==
            [NoHints EXCEPT !.hiring = TRUE, !.position = {"Geodezist"},
                            !.city = {"Moskva"}, !.equipment = <<"GNSS">>,
                            !.skills = <<"QGIS">>, !.phone = {PhoneLit},
                            !.telegram = {TelegramLit}]
        HAll == [HVacancy EXCEPT !.seeking = TRUE,
                                 !.salary = {150000}, !.rub = "RUB", !.period = "month",
                                 !.rotation = TRUE, !.ratios = <<"30/30">>]
    IN  {NoHints, HSalary, HRotation, HVacancy, HAll}

RecInit ==
    /\ PipelineOff
    /\ ExtIdle
    /\ sanPc = "off" /\ sanIn = <<>> /\ sanOut1 = <<>> /\ sanOut2 = <<>>
    /\ recPc = "called"
    /\ recPath = "none"
    /\ recText = <<>>
    /\ hints \in AbstractHints
    /\ item = NoRec

RecStep(from, to) ==
    /\ recPc = from
    /\ recPc' = to
    /\ UNCHANGED <<recText, hints, pipeVars, sanPc, sanIn, sanOut1, sanOut2>>

\* parsed = ParsedItem.model_validate(llm_json)
RecExtracted ==
    /\ RecStep("called", "parsed")
    /\ \E j \in RawItems :
          /\ SchemaValid(j)
          /\ item' = model_validate(j)
    /\ recPath' = "model"

\* the call or the validation raised: the stub, over what was salvaged
RecStub ==
    /\ RecStep("called", "parsed")
    /\ \E j \in RawItems : item' = Stub(j, recText)
    /\ recPath' = "stub"

\* parsed = normalize(parsed)
RecNormalize ==
    /\ RecStep("parsed", "normalized")
    /\ item' = normalize(item)
    /\ UNCHANGED recPath

\* parsed = rule_enrich(parsed, text)
RecEnrich ==
    /\ RecStep("normalized", "enriched")
    /\ item' = rule_enrich(item, hints)
    /\ UNCHANGED recPath

\* validate_and_impute: the three rules
RecRules ==
    /\ RecStep("enriched", "repaired")
    /\ item' = rule_repair(item, hints)
    /\ UNCHANGED recPath

\* validate_and_impute: the validator answered with an object that validates
RecValidatorOk ==
    /\ RecStep("repaired", "validated")
    /\ \E j \in RawItems :
          /\ SchemaValid(j)
          /\ item' = ValidatorResult(item, model_validate(j))
    /\ UNCHANGED recPath

\* validate_and_impute: no validator, or its call or its answer raised
RecValidatorSkip ==
    /\ RecStep("repaired", "validated")
    /\ UNCHANGED <<item, recPath>>

\* the contact safety net, then upsert_job(row, parsed)
RecHandOff ==
    /\ RecStep("validated", "handed")
    /\ item' = ContactNet(item, hints)
    /\ UNCHANGED recPath

RecNext ==
    \/ RecExtracted
    \/ RecStub
    \/ RecNormalize
    \/ RecEnrich
    \/ RecRules
    \/ RecValidatorOk
    \/ RecValidatorSkip
    \/ RecHandOff

SpecRecord == RecInit /\ [][RecNext]_vars

\* ------------------------------------------------------------------------
\* The salary heuristic on texts: the model answered with no salary
\* ------------------------------------------------------------------------
\* "200", "к", " 000", "-250 т.р", "зп ", "+7 999 ", "x ", "14", "6000000"
SalText ==
    [d200 |-> <<50, 48, 48>>,
     low |-> <<49, 52>>,
     high |-> <<54, 48, 48, 48, 48, 48, 48>>,
     kilo |-> <<1082>>,
     thousand |-> <<SPACE, 48, 48, 48>>,
     range |-> <<45, 50, 53, 48, SPACE, 1090, 46, 1088>>,
     zp |-> <<1079, 1087, SPACE>>,
     phonePrefix |-> <<43, 55, SPACE, 57, 57, 57, SPACE>>,
     other |-> <<120, SPACE>>]
SalTokens == {SalText.d200, SalText.kilo, SalText.thousand, SalText.range, SalText.zp,
              SalText.phonePrefix, SalText.other, SalText.low, SalText.high, PhoneLit}

\* the texts made of 1 to n of the tokens
TokenTexts(tokens, n) == {Flatten(ts) : ts \in UNION {[1..k -> tokens] : k \in 1..n}}
\* the texts of S that parse_one can hold: raw_text.strip() and sanitize_text
\* leave them as they are, and they are not empty
Parseable(S) == {t \in S : sanitize_text(Strip(t)) = t /\ t # <<>>}

SalInit ==
    /\ PipelineOff
    /\ ExtIdle
    /\ sanPc = "off" /\ sanIn = <<>> /\ sanOut1 = <<>> /\ sanOut2 = <<>>
    /\ recPc = "called"
    /\ recPath = "none"
    /\ recText \in Parseable(TokenTexts(SalTokens, MaxSalTokens))
    /\ hints = Features(recText)
    /\ item = NoRec

\* the model answers with an object that has no salary
SalExtracted ==
    /\ RecStep("called", "parsed")
    /\ \E c \in RawValues.currencies :
          item' = model_validate([EmptyJson EXCEPT !.salary.currency = c])
    /\ recPath' = "model"

SalNext ==
    \/ SalExtracted
    \/ RecNormalize
    \/ RecEnrich
    \/ RecRules
    \/ RecValidatorSkip
    \/ RecHandOff

SpecSalary == SalInit /\ [][SalNext]_vars

\* ------------------------------------------------------------------------
\* The heuristics on texts: role markers, rotation and contacts, with no
\* validator configured
\* ------------------------------------------------------------------------
\* "требуется", "предлагаю услуги", "# вакансия", "# резюме", "вахта",
\* "ротация", "45/15", "30/15", ", ", "@hr_example", "hr@example.com"
TextLit ==
    [need |-> <<1090, 1088, 1077, 1073, 1091, 1077, 1090, 1089, 1103>>,
     offer |-> <<1087, 1088, 1077, 1076, 1083, 1072, 1075, 1072, 1102, SPACE, 1091, 1089, 1083, 1091, 1075, 1080>>,
     tagVac |-> <<35, SPACE, 1074, 1072, 1082, 1072, 1085, 1089, 1080, 1103>>,
     tagResume |-> <<35, SPACE, 1088, 1077, 1079, 1102, 1084, 1077>>,
     vakhta |-> <<1074, 1072, 1093, 1090, 1072>>,
     rotatsiya |-> <<1088, 1086, 1090, 1072, 1094, 1080, 1103>>,
     r45 |-> <<52, 53, 47, 49, 53>>,
     r30 |-> <<51, 48, 47, 49, 53>>,
     sep |-> <<44, SPACE>>,
     telegram |-> <<64, 104, 114, 95, 101, 120, 97, 109, 112, 108, 101>>,
     email |-> <<104, 114, 64, 101, 120, 97, 109, 112, 108, 101, 46, 99, 111, 109>>]
TextTokens == {TextLit.need, TextLit.offer, TextLit.tagVac, TextLit.tagResume,
               TextLit.vakhta, TextLit.rotatsiya, TextLit.r45, TextLit.r30, TextLit.sep}

\* "ВАКАНСИЯ: Инженер-геодезист. Вахта 30/15, оплата 200 000–250 000 ₽/мес.
\* Тахеометр и GNSS, AutoCAD/Civil 3D. @hr_example, +7 999 123-45-67,
\* hr@example.com. Тюмень."
ExampleText ==
    <<1042, 1040, 1050, 1040, 1053, 1057, 1048, 1071, 58, SPACE, 1048, 1085, 1078, 1077,
      1085, 1077, 1088, 45, 1075, 1077, 1086, 1076, 1077, 1079, 1080, 1089, 1090, 46,
      SPACE, 1042, 1072, 1093, 1090, 1072, SPACE, 51, 48, 47, 49, 53, 44, SPACE,
      1086, 1087, 1083, 1072, 1090, 1072, SPACE, 50, 48, 48, SPACE, 48, 48, 48,
      8211, 50, 53, 48, SPACE, 48, 48, 48, SPACE, 8381, 47, 1084, 1077, 1089,
      46, SPACE, 1058, 1072, 1093, 1077, 1086, 1084, 1077, 1090, 1088, SPACE, 1080, SPACE,
      71, 78, 83, 83, 44, SPACE, 65, 117, 116, 111, 67, 65, 68, 47,
      67, 105, 118, 105, 108, SPACE, 51, 68, 46, SPACE, 64, 104, 114, 95,
      101, 120, 97, 109, 112, 108, 101, 44, SPACE, 43, 55, SPACE, 57, 57,
      57, SPACE, 49, 50, 51, 45, 52, 53, 45, 54, 55, 44, SPACE, 104,
      114, 64, 101, 120, 97, 109, 112, 108, 101, 46, 99, 111, 109, 46,
      SPACE, 1058, 1102, 1084, 1077, 1085, 1100, 46>>

\* a ratio of the text as a schedule tag
RatioTag(r) ==
    CASE r = TextLit.r45 -> "45/15"
      [] r = TextLit.r30 -> "30/15"

\* what the patterns find in a text. The position, place, equipment and
\* skill patterns are left out: their blocks of rule_enrich read and write
\* no field of role, salary, employment, schedule or contact
TextFeatures(t) ==
    [Features(t) EXCEPT
        !.hiring = RE_TAG_VAC(t) \/ RE_NEED(t),
        !.seeking = RE_TAG_RESUME(t) \/ RE_OFFER_SELF(t),
        !.period = _period_from_text(t),
        !.rotation = RE_ROTATION(t),
        !.ratios = [i \in 1..Len(RatioList(t, 1)) |-> RatioTag(RatioList(t, 1)[i])],
        !.telegram = TG_RE(t),
        !.email = EMAIL_RE(t)]

\* JSON objects of the model's answer: with or without a role, with a ratio
\* as its schedule, with a text_clean of its own
TextAnswers ==
    {[EmptyJson EXCEPT !.role = x] : x \in {"unknown", "candidate"}}
        \cup {[EmptyJson EXCEPT !.schedule = <<"45/15">>]}
        \cup {[EmptyJson EXCEPT !.text_clean = <<120>>]}

TextInit ==
    /\ PipelineOff
    /\ ExtIdle
    /\ sanPc = "off" /\ sanIn = <<>> /\ sanOut1 = <<>> /\ sanOut2 = <<>>
    /\ recPc = "called"
    /\ recPath = "none"
    /\ recText \in Parseable({ExampleText} \cup TokenTexts(TextTokens, MaxTextTokens))
    /\ hints = TextFeatures(recText)
    /\ item = NoRec

\* parsed = ParsedItem.model_validate(llm_json)
TextExtracted ==
    /\ RecStep("called", "parsed")
    /\ \E j \in TextAnswers : item' = model_validate(j)
    /\ recPath' = "model"

\* the call raised with no JSON object in its message: the stub over {}
TextStub ==
    /\ RecStep("called", "parsed")
    /\ item' = Stub(EmptyJson, recText)
    /\ recPath' = "stub"

TextNext ==
    \/ TextExtracted
    \/ TextStub
    \/ RecNormalize
    \/ RecEnrich
    \/ RecRules
    \/ RecValidatorSkip
    \/ RecHandOff

SpecText == TextInit /\ [][TextNext]_vars

\* ------------------------------------------------------------------------
\* Properties
\* ------------------------------------------------------------------------

\* C1: the failover flag is sticky: once FALLBACK_ACTIVATED is true no step
\* makes it false again, and a request is sent to the primary backend only by
\* a step taken while the flag is false, so an invocation of
\* call_llm_with_failover that starts with the flag set calls the secondary only.
C1_StickyFailover ==
    [][ /\ FALLBACK_ACTIVATED => FALLBACK_ACTIVATED'
        /\ \A r \in RawIds :
              (pc[r] # "cloud" /\ pc'[r] = "cloud") => ~FALLBACK_ACTIVATED
        /\ \A r \in RawIds :
              (FALLBACK_ACTIVATED /\ pc[r] = "sanitized" /\ pc'[r] # pc[r])
                  => (pc'[r] = "local" /\ cloudCalls'[r] = 0 /\ localCalls'[r] = 1)
      ]_vars

\* the preflight succeeded, the flag was tripped by a later failure, and an
\* invocation that started after that is calling the secondary, the primary
\* not having been called
C1_Witness ==
    /\ FALLBACK_ACTIVATED
    /\ preflight = "ok"
    /\ \E r \in RawIds : pc[r] = "local" /\ cloudCalls[r] = 0 /\ localCalls[r] = 1

\* C2: when a primary model is configured and the start-up preflight fails,
\* FALLBACK_ACTIVATED is set by the preflight step itself (before the first
\* fetch), and no record is ever sent to the primary backend.
C2_PreflightFailure ==
    /\ (mainPc = "preflight" => (CLOUD_MODEL /\ batch = {} /\ table = {}))
    /\ (preflight = "failed" =>
          /\ CLOUD_MODEL
          /\ FALLBACK_ACTIVATED
          /\ \A r \in RawIds : pc[r] # "cloud" /\ cloudCalls[r] = 0)

\* after a failed preflight a record went through the secondary and was
\* persisted
C2_Witness ==
    /\ preflight = "failed"
    /\ \E r \in RawIds : pc[r] = "persisted" /\ RowsOf(table, r) # {}

\* C3: when the primary call fails, for whatever reason, the same invocation
\* sets FALLBACK_ACTIVATED and calls the secondary once; an invocation makes
\* at most one primary and at most one secondary call.
C3_FailoverOnce ==
    [][ \A r \in RawIds :
          /\ (pc[r] = "cloud" /\ pc'[r] # "cloud")
                => \/ pc'[r] \in {"extracted", "except_schema"}
                   \/ /\ pc'[r] = "local"
                      /\ FALLBACK_ACTIVATED'
                      /\ cloudCalls'[r] = 1
                      /\ localCalls'[r] = 1
          /\ (pc[r] = "local" /\ pc'[r] # "local")
                => pc'[r] \in {"extracted", "except_schema", "except_call"}
          /\ cloudCalls'[r] <= 1
          /\ localCalls'[r] <= 1
      ]_vars

\* an invocation whose primary call failed is now calling the secondary
C3_Witness ==
    \E r \in RawIds :
        /\ pc[r] = "local"
        /\ cloudCalls[r] = 1
        /\ localCalls[r] = 1
        /\ FALLBACK_ACTIVATED

\* C4: a record is never dropped because model extraction failed: once
\* parse_one's except branch is entered, a stub is built and the record goes
\* on (the only exception that ends a run of parse_one is one of upsert_job).
C4_NeverDropped ==
    [][ \A r \in RawIds :
          /\ (pc[r] \in {"except_call", "except_schema"} /\ pc'[r] # pc[r])
                => pc'[r] = "stub"
          /\ (pc[r] # "raised" /\ pc'[r] = "raised") => pc[r] = "validated"
      ]_vars

\* C5: a record that took the stub path is handed to upsert_job with
\* confidence 0.3 and with "fallback" in its errors, whatever the later
\* stages did.
C5_DegradedMarkers ==
    \A r \in RawIds :
        (pc[r] = "validated" /\ path[r] = "stub")
            => /\ parsed[r].confidence = STUB_CONFIDENCE
               /\ "fallback" \in parsed[r].errors

\* stage of a task, in the words of the pipeline's stage list
Stage(pcv) ==
    CASE pcv \in {"idle", "joined", "logged"} -> "NONE"
      [] pcv = "received" -> "RECEIVED"
      [] pcv \in {"sanitized", "cloud", "local", "except_call", "except_schema"}
            -> "SANITIZED"
      [] pcv = "extracted" -> "MODEL_EXTRACTED"
      [] pcv = "stub" -> "HEURISTIC_STUB"
      [] pcv \in {"enriched", "vprobe", "vcall"} -> "ENRICHED"
      [] pcv = "validated" -> "VALIDATED"
      [] pcv = "persisted" -> "PERSISTED"
      [] pcv = "skipped" -> "SKIPPED"
      [] pcv = "raised" -> "ABORTED"

\* C6: a record goes through RECEIVED, SANITIZED, MODEL_EXTRACTED or
\* HEURISTIC_STUB, ENRICHED, VALIDATED, PERSISTED in that order, no stage
\* skipped or reordered (a run may stop early: empty text, or an exception);
\* the table is written only by the step from VALIDATED to PERSISTED, which a
\* run of parse_one takes at most once.
C6_StageOrder ==
    [][ /\ \A r \in RawIds :
              LET a == Stage(pc[r])
                  b == Stage(pc'[r])
                  StageEdges == {<<"NONE", "RECEIVED">>,
                                 <<"RECEIVED", "SANITIZED">>,
                                 <<"SANITIZED", "MODEL_EXTRACTED">>,
                                 <<"SANITIZED", "HEURISTIC_STUB">>,
                                 <<"MODEL_EXTRACTED", "ENRICHED">>,
                                 <<"HEURISTIC_STUB", "ENRICHED">>,
                                 <<"ENRICHED", "VALIDATED">>,
                                 <<"VALIDATED", "PERSISTED">>}
              IN  \/ a = b
                  \/ <<a, b>> \in StageEdges
                  \/ a = "RECEIVED" /\ b = "SKIPPED"
                  \/ a \in {"SANITIZED", "VALIDATED"} /\ b = "ABORTED"
                  \/ a \in {"PERSISTED", "SKIPPED", "ABORTED"} /\ b = "NONE"
        /\ table' # table =>
              \E r \in RawIds :
                  /\ Stage(pc[r]) = "VALIDATED"
                  /\ Stage(pc'[r]) = "PERSISTED"
                  /\ table' = Upsert(table, Rec(r, parsed[r]))
      ]_vars

\* a record of the stub path has been through the validator and is persisted
C6_Witness ==
    \E r \in RawIds :
        /\ pc[r] = "persisted"
        /\ VALIDATOR_ON
        /\ Rec(r, StubRecord) \in table

\* C7: the records of a batch are processed as concurrent tasks, all launched
\* together; a task that raised does not stop main_loop or the other tasks: as
\* long as a task of the batch has not settled main_loop is awaiting and the
\* event loop, when free, can resume the task; the batch is reported only once
\* every task has settled.
C7_BatchIsolation ==
    /\ mainPc # "crashed"
    /\ (mainPc = "await" => \A r \in batch : pc[r] # "idle")
    /\ (mainPc = "reported" => \A r \in batch : Settled(r))
    /\ \A r \in batch :
          ~Settled(r) => (mainPc = "await" /\ (running \in {NoTask, r} => Turn(r)))

\* the batch is reported, one of its tasks having raised and another having
\* written its row
C7_Witness ==
    /\ mainPc = "reported"
    /\ \E r, q \in batch :
          /\ pc[r] = "logged"
          /\ pc[q] = "joined"
          /\ RowsOf(table, q) # {}

C9_IdempotentUpsert ==
    [][ /\ \A x, y \in table' : x.raw_item_id = y.raw_item_id => x = y
        /\ \A r \in RawIds :
              (pc[r] = "validated" /\ pc'[r] = "persisted")
                  => /\ RowsOf(table', r) = {Rec(r, parsed[r])}
                     /\ \A q \in RawIds \ {r} :
                          /\ RowsOf(table', q) = RowsOf(table, q)
                          /\ \A c \in CONF_MIN..CONF_MAX :
                                LET y == Rec(q, [confidence |-> c, errors |-> {}])
                                IN  Upsert(table', y)
                                        = Upsert(Upsert(table, y), Rec(r, parsed[r]))
        /\ table' # table => \E r \in RawIds : pc[r] = "validated" /\ pc'[r] = "persisted"
      ]_vars

\* a record is processed again: its row exists and is about to be overwritten
\* by a different one
C9_Witness ==
    \E r \in RawIds :
        /\ pc[r] = "validated"
        /\ RowsOf(table, r) # {}
        /\ RowsOf(table, r) # {Rec(r, parsed[r])}

\* C11: a record whose text is empty, white space only or sanitizes to the
\* empty text is skipped: its task goes from received to skipped and nowhere
\* else, no request is sent to a model backend for it, no row is ever written
\* for it, and the step that skips it leaves the table and the failover flag
\* as they were.
C11_EmptySkipped ==
    [][ \A r \in RawIds :
          TextOf(r) = <<>> =>
              /\ pc'[r] \in {"idle", "received", "skipped", "joined"}
              /\ cloudCalls'[r] = 0
              /\ localCalls'[r] = 0
              /\ RowsOf(table', r) = {}
              /\ (pc[r] = "received" /\ pc'[r] # pc[r]) =>
                    /\ pc'[r] = "skipped"
                    /\ table' = table
                    /\ FALLBACK_ACTIVATED' = FALLBACK_ACTIVATED
      ]_vars

\* a white-space-only record and a record of hashtags only have been skipped
C11_Witness ==
    \E r, q \in RawIds :
        /\ pc[r] = "skipped" /\ rawText[r] = <<SPACE>>
        /\ pc[q] = "skipped" /\ rawText[q] = <<HASH, 120>>

\* C10: sanitize_text is idempotent: applied to its own output it returns it
\* unchanged.
C10_Idempotent == sanPc = "twice" => sanOut2 = sanOut1

\* ------------------------------------------------------------------------
\* C12: in every record handed to upsert_job, by the model path or the stub
\* path, with or without a validator's answer, salary.min <= salary.max
\* whenever both bounds are set.
\* ------------------------------------------------------------------------
C12_SalaryRange ==
    recPc = "handed" =>
        (item.salary.min # {} /\ item.salary.max # {}
            => ValueOf(item.salary.min) <= ValueOf(item.salary.max))

\* a record with both bounds set is handed over on the stub path
C12_Witness ==
    /\ recPc = "handed"
    /\ recPath = "stub"
    /\ item.salary.min \in {{0}, {200000}}
    /\ item.salary.max = {250000}

\* ------------------------------------------------------------------------
\* C13: the salary heuristic accepts no candidate that overlaps a
\* phone-shaped span of the text, and a text that is only a phone number
\* ("+7 999 123-45-67") leaves salary.min and salary.max unset.
\* ------------------------------------------------------------------------
C13_PhoneNotSalary ==
    recPc \in {"enriched", "repaired", "validated", "handed"} =>
        /\ item.salary.min # {} =>
              /\ SalaryMatch(recText) # NoMatch
              /\ \A ph \in PhoneSpans(recText, 1) :
                    \/ ph[2] <= SalaryMatch(recText).start
                    \/ ph[1] >= SalaryMatch(recText).end
        /\ recText = PhoneLit => item.salary.min = {} /\ item.salary.max = {}

\* rule_enrich has run on "+7 999 200 000": RE_SALARY_NUM matches "200 000"
\* inside the phone-shaped span, and no salary is set
C13_Witness ==
    /\ recPc = "enriched"
    /\ recText = SalText.phonePrefix \o SalText.d200 \o SalText.thousand
    /\ NumSearch(recText) # NoMatch
    /\ item.salary.min = {}

\* ------------------------------------------------------------------------
\* C14: the salary heuristic reads "200к" as 200000 and "200 000" as 200000,
\* and "200-250 т.р" as min = 200000 and max = 250000.
\* ------------------------------------------------------------------------
C14_UnitMultiplier ==
    recPc = "enriched" =>
        /\ recText = SalText.d200 \o SalText.kilo => item.salary.min = {200000}
        /\ recText = SalText.d200 \o SalText.thousand => item.salary.min = {200000}
        /\ recText = SalText.d200 \o SalText.range =>
              item.salary.min = {200000} /\ item.salary.max = {250000}

\* ------------------------------------------------------------------------
\* C15: in every record handed to upsert_job salary.currency is one of RUB,
\* KZT, USD, EUR, OTHER, unknown and salary.period one of month, day, hour,
\* shift, rotation, project, unknown; a value outside the set that the model
\* or the validator returned is collapsed by normalize to "OTHER" (currency)
\* or "unknown" (period), and the record is kept.
\* ------------------------------------------------------------------------
C15_EnumClamp ==
    [][ /\ recPc' = "handed" =>
              /\ item'.salary.currency \in CURRENCIES
              /\ item'.salary.period \in PERIODS
        /\ recPc = "parsed" /\ recPc' = "normalized" =>
              /\ item.salary.currency \notin CURRENCIES => item'.salary.currency = "OTHER"
              /\ item.salary.period \notin PERIODS => item'.salary.period = "unknown"
      ]_vars

\* a record whose currency was collapsed is handed over
C15_Witness ==
    /\ recPc = "handed"
    /\ item.salary.currency = "OTHER"
    /\ item.salary.min = {200000}

\* ------------------------------------------------------------------------
\* C16: in every record handed to upsert_job role is one of employer,
\* candidate, unknown; a role outside this set collapses to "unknown".
\* ------------------------------------------------------------------------
C16_RoleEnum == recPc = "handed" => item.role \in {"employer", "candidate", "unknown"}

\* ------------------------------------------------------------------------
\* C17: in every record handed to upsert_job 0.0 <= confidence <= 1.0,
\* whatever the model or the validator returned: normalize makes 1.0 of 2.5
\* and 0.0 of a negative value.
\* ------------------------------------------------------------------------
C17_ConfidenceBound ==
    [][ /\ recPc' = "handed" =>
              /\ item'.confidence # NaN
              /\ CONF_MIN <= item'.confidence
              /\ item'.confidence <= CONF_MAX
        /\ recPc = "parsed" /\ recPc' = "normalized" =>
              /\ item.confidence = 25 => item'.confidence = CONF_MAX
              /\ (item.confidence # NaN /\ item.confidence < 0) => item'.confidence = CONF_MIN
      ]_vars

\* a record of the model path is handed over with confidence 1.0, which only
\* the clamp produces (the model answered 2.5 or NaN)
C17_Witness ==
    /\ recPc = "handed"
    /\ recPath = "model"
    /\ item.confidence = CONF_MAX
    /\ item.role = "employer"

\* ------------------------------------------------------------------------
\* C18: when the upstream confidence is NaN or not a number, the record's
\* confidence after normalization is 0.0.
\* ------------------------------------------------------------------------
C18_InvalidConfidence ==
    [][ (recPc = "parsed" /\ recPc' = "normalized" /\ item.confidence = NaN)
            => item'.confidence = 0 ]_vars

\* ------------------------------------------------------------------------
\* C19: normalize(normalize(r)) = normalize(r) for every record r: tags
\* already mapped through CANON_EMPLOYMENT / CANON_SCHEDULE, canonical
\* equipment and skills, clamped enums and a clamped confidence are left
\* unchanged by a second normalize.
\* ------------------------------------------------------------------------
C19_NormalizeFixedPoint ==
    /\ recPc = "parsed" => normalize(normalize(item)) = normalize(item)
    /\ recPc = "normalized" => normalize(item) = item

\* normalize has produced a record with a mapped schedule tag
C19_Witness ==
    /\ recPc = "normalized"
    /\ item.schedule = <<"vakhta">>
    /\ recPath = "model"

\* ------------------------------------------------------------------------
\* C20: rule_enrich only fills fields that are empty: every field that is
\* non-empty before it (a role other than unknown, position, the salary
\* bounds, employment, schedule, equipment, skills, city and region, the
\* contact channels) has the same value after it.
\* ------------------------------------------------------------------------
C20_FillIfEmpty ==
    [][ (recPc = "normalized" /\ recPc' = "enriched") =>
            /\ item.role # "unknown" => item'.role = item.role
            /\ item.position # {} => item'.position = item.position
            /\ item.salary.min # {} => item'.salary.min = item.salary.min
            /\ item.salary.max # {} => item'.salary.max = item.salary.max
            /\ item.employment # <<>> => item'.employment = item.employment
            /\ item.schedule # <<>> => item'.schedule = item.schedule
            /\ item.equipment # <<>> => item'.equipment = item.equipment
            /\ item.skills # <<>> => item'.skills = item.skills
            /\ item.city.city # {} => item'.city.city = item.city.city
            /\ item.city.region # {} => item'.city.region = item.city.region
            /\ item.contact.phone # {} => item'.contact.phone = item.contact.phone
            /\ item.contact.telegram # {} => item'.contact.telegram = item.contact.telegram
            /\ item.contact.email # {} => item'.contact.email = item.contact.email
      ]_vars

\* ------------------------------------------------------------------------
\* C21: when the validator returns a result, validate_and_impute merges it:
\* every field that is non-empty in the rule-repaired record (a role other
\* than unknown, position, the salary bounds, a currency or period other than
\* unknown, employment, schedule, equipment, skills, city, region, country,
\* the contact channels) keeps its value; only the fields still empty after
\* the rules take the validator's values.
\* ------------------------------------------------------------------------
C21_ValidatorMerge ==
    [][ (recPc = "repaired" /\ recPc' = "validated") =>
            /\ item.role # "unknown" => item'.role = item.role
            /\ item.position # {} => item'.position = item.position
            /\ item.salary.min # {} => item'.salary.min = item.salary.min
            /\ item.salary.max # {} => item'.salary.max = item.salary.max
            /\ item.salary.currency # "unknown" => item'.salary.currency = item.salary.currency
            /\ item.salary.period # "unknown" => item'.salary.period = item.salary.period
            /\ item.employment # <<>> => item'.employment = item.employment
            /\ item.schedule # <<>> => item'.schedule = item.schedule
            /\ item.equipment # <<>> => item'.equipment = item.equipment
            /\ item.skills # <<>> => item'.skills = item.skills
            /\ item.city.city # {} => item'.city.city = item.city.city
            /\ item.city.region # {} => item'.city.region = item.city.region
            /\ item.city.country # {} => item'.city.country = item.city.country
            /\ item.contact.phone # {} => item'.contact.phone = item.contact.phone
            /\ item.contact.telegram # {} => item'.contact.telegram = item.contact.telegram
            /\ item.contact.email # {} => item'.contact.email = item.contact.email
      ]_vars

\* ------------------------------------------------------------------------
\* C27: after normalize each of the four list fields employment, schedule,
\* equipment and skills contains no duplicate entry, has at most CANON_LIMIT
\* (8) entries, and keeps the first-seen order of its canonical entries.
\* ------------------------------------------------------------------------
C27_ListCanon ==
    [][ (recPc = "parsed" /\ recPc' = "normalized") =>
            LET NoDup(l) == \A i, j \in 1..Len(l) : l[i] = l[j] => i = j
                \* out[i] is seen in the entries before out[j] is first seen
                FirstSeen(out, in) ==
                    \A i, j \in 1..Len(out) : i < j =>
                        \E a, b \in 1..Len(in) :
                            /\ a < b
                            /\ in[a] = out[i]
                            /\ in[b] = out[j]
                            /\ \A c \in 1..(b - 1) : in[c] # out[j]
                Fuzzy(v, U) == LET res == ExtractOne(StripStr(v), U)
                               IN  IF res.score >= FUZZY_THRESHOLD THEN res.best
                                   ELSE StripStr(v)
            IN  /\ \A l \in {item'.employment, item'.schedule, item'.equipment,
                             item'.skills} : NoDup(l) /\ Len(l) <= CANON_LIMIT
                /\ FirstSeen(item'.employment,
                             [i \in 1..Len(item.employment) |->
                                 CANON_EMPLOYMENT(LowerStr(item.employment[i]))])
                /\ FirstSeen(item'.schedule,
                             [i \in 1..Len(item.schedule) |->
                                 CANON_SCHEDULE(LowerStr(item.schedule[i]))])
                /\ FirstSeen(item'.equipment,
                             [i \in 1..Len(item.equipment) |->
                                 Fuzzy(item.equipment[i], CANON_EQUIP)])
                /\ FirstSeen(item'.skills,
                             [i \in 1..Len(item.skills) |->
                                 Fuzzy(item.skills[i], CANON_SKILLS)])
      ]_vars

\* ------------------------------------------------------------------------
\* C30: rule_impute_geo never overwrites a region or a country that is set and
\* leaves the city as it is; it fills a region only from the city table; and
\* once the deterministic rules have run, every record with a city has a
\* country.
\* ------------------------------------------------------------------------
C30_GeoImpute ==
    /\ [][ (recPc = "enriched" /\ recPc' = "repaired") =>
              /\ item'.city.city = item.city.city
              /\ item.city.region # {} => item'.city.region = item.city.region
              /\ item.city.country # {} => item'.city.country = item.city.country
              /\ (item.city.region = {} /\ item'.city.region # {}) =>
                    \E c \in item.city.city : \E k \in {c, TitleStr(c)} :
                        /\ CITY_TO_REGION_COUNTRY(k) # <<>>
                        /\ item'.city.region = {CITY_TO_REGION_COUNTRY(k)[1]}
         ]_vars
    /\ [](recPc = "repaired" /\ item.city.city # {} => item.city.country # {})

\* a record whose city is in the table, with a region and a country the table
\* does not give, has been through the rules
C30_Witness ==
    /\ recPc = "repaired"
    /\ item.city = [city |-> {"Moskva"}, region |-> {"Tverskaya oblast"},
                    country |-> {"Kazakhstan"}]

\* ------------------------------------------------------------------------
\* C22: validate_and_impute applies the deterministic rules first (geography,
\* schedule, salary) and then either returns or asks the validator; with the
\* validator disabled it returns at once; when the probe fails, or the call
\* or the parsing of its answer raises, the rule-repaired record is returned
\* unchanged; a record obtained from the validator is a normalized one; no
\* exception leaves validate_and_impute (the task does not end in it).
\* ------------------------------------------------------------------------
C22_ValidatorFailure ==
    [][ \A r \in RawIds :
          /\ (pc[r] = "enriched" /\ pc'[r] # "enriched") =>
                /\ pc'[r] = IF VALIDATOR_ON THEN "vprobe" ELSE "validated"
                /\ \E h \in {RowFeatures[rawText[r]]} :
                      parsed'[r] = rule_fix_salary(
                                       rule_impute_schedule(rule_impute_geo(parsed[r]), h), h)
          /\ (pc[r] = "vprobe" /\ pc'[r] # "vprobe") =>
                /\ pc'[r] \in {"vcall", "validated"}
                /\ parsed'[r] = parsed[r]
          /\ (pc[r] = "vcall" /\ pc'[r] # "vcall") =>
                /\ pc'[r] = "validated"
                /\ \/ parsed'[r] = parsed[r]
                   \/ normalize(parsed'[r]) = parsed'[r]
      ]_vars

\* with the validator enabled, validate_and_impute has returned the
\* rule-repaired stub: the validator was unavailable or failed
C22_Witness ==
    \E r \in RawIds :
        /\ VALIDATOR_ON
        /\ pc[r] = "validated"
        /\ path[r] = "stub"
        /\ parsed[r].confidence = STUB_CONFIDENCE

\* ------------------------------------------------------------------------
\* C24: with once=True main_loop calls fetch_batch at most once, processes at
\* most one batch and then exits, whether the fetch raised, returned nothing
\* or returned rows; with once=False it never exits on its own.
\* ------------------------------------------------------------------------
C24_SinglePass ==
    /\ once => <>(mainPc = "exit")
    /\ [](~once => mainPc # "exit")
    /\ [][ once =>
              /\ mainPc = "fetch" => mainPc' \in {"fetch", "await", "exit"}
              /\ mainPc \in {"await", "reported", "exit"} => mainPc' # "fetch"
              /\ mainPc \in {"await", "reported", "exit"} => batch' = batch
         ]_vars

\* a single pass has exited after a batch with rows
C24_Witness == once /\ mainPc = "exit" /\ batch # {}

\* ------------------------------------------------------------------------
\* C23: upsert_job makes at most MAX_ATTEMPTS (5) attempts for a record; its
\* error surfaces only when every one of them has failed, nothing is then
\* written, and only that record is aborted: the other tasks are left as they
\* are and can still be resumed, and main_loop catches the error when it awaits
\* the task and goes on awaiting the batch.
\* ------------------------------------------------------------------------
C23_BoundedRetry ==
    /\ [](attempt \in 0..(MAX_ATTEMPTS - 1))
    /\ [](mainPc # "crashed")
    /\ [](\A r \in batch :
             ~Settled(r) => (mainPc = "await" /\ (running \in {NoTask, r} => Turn(r))))
    /\ [][ \A r \in RawIds :
              /\ (pc[r] = "validated" /\ pc'[r] = "raised") =>
                    /\ attempt + 1 = MAX_ATTEMPTS
                    /\ table' = table
                    /\ mainPc' = mainPc
                    /\ \A q \in RawIds \ {r} : pc'[q] = pc[q] /\ parsed'[q] = parsed[q]
              /\ (pc[r] = "validated" /\ attempt' > attempt) =>
                    /\ attempt' = attempt + 1
                    /\ running' = r
                    /\ pc' = pc
              /\ (pc[r] = "raised" /\ pc'[r] # "raised") =>
                    (pc'[r] = "logged" /\ mainPc' = "await")
         ]_vars

\* four attempts of a record have failed and the fifth is due, while another
\* record of the batch has been written
C23_Witness ==
    \E r, q \in batch :
        /\ running = r
        /\ pc[r] = "validated"
        /\ attempt = MAX_ATTEMPTS - 1
        /\ RowsOf(table, q) # {}

\* ------------------------------------------------------------------------
\* C26: a salary the heuristic of rule_enrich writes lies in 15000..5000000
\* and is the number of the match, multiplied by 1000 under a suffix т.р / тыс
\* or when it is under 1000; a candidate whose scaled value is outside that
\* band, or whose digit string has 10 to 12 digits, leaves salary.min and
\* salary.max unset. (The model answered with no salary. A number above 5000
\* is not multiplied here: under a suffix it is over the band as it is.)
\* ------------------------------------------------------------------------
C26_SalaryBand ==
    recPc = "enriched" =>
        \A m \in {SalaryMatch(recText)} :
            \A ds \in {SelectSeq(m.base, IsDigit)} :
                \A n \in {IntOf(ds, 0)} :
                    LET thousand == \E k \in 1..Len(m.unit) : ThousandMatchLen(m.unit, k) > 0
                        scaled == IF n > 5000 THEN n
                                  ELSE IF thousand \/ n < 1000 THEN n * 1000
                                  ELSE n
                        unset == item.salary.min = {} /\ item.salary.max = {}
                    IN  /\ item.salary.max = {}
                        /\ item.salary.min # {} =>
                              /\ m # NoMatch
                              /\ item.salary.min = {scaled}
                              /\ scaled >= 15000 /\ scaled <= 5000000
                        /\ (m # NoMatch /\ Len(ds) >= 10 /\ Len(ds) <= 12) => unset
                        /\ (m # NoMatch /\ (scaled < 15000 \/ scaled > 5000000)) => unset
                        /\ (m # NoMatch /\ thousand /\ n > 5000) => unset

\* rule_enrich has run on "зп 14" (14000: under the band), on "зп 6000000"
\* (over it) and on "зп 200" (200000: written)
C26_Witness ==
    /\ recPc = "enriched"
    /\ \/ recText = SalText.zp \o SalText.low /\ item.salary.min = {}
       \/ recText = SalText.zp \o SalText.high /\ item.salary.min = {}

\* C29: when the model left the role unknown and the text holds both a
\* seeking-work marker and a hiring marker, rule_enrich resolves the role to
\* candidate; when it holds neither, the role stays at its default
C29_RolePrecedence ==
    [][ (recPc = "normalized" /\ recPc' = "enriched" /\ item.role = "unknown") =>
            /\ (hints.hiring /\ hints.seeking) => item'.role = "candidate"
            /\ (~hints.hiring /\ ~hints.seeking) => item'.role = "unknown"
      ]_vars

\* C28: whenever the text holds the word "вахта" or "ротация" or a ratio
\* D1/D2, the record after rule_enrich has "rotation" in employment, "вахта"
\* in schedule and every ratio of the text in schedule
C28_RotationDetection ==
    [][ (/\ recPc = "normalized"
         /\ recPc' = "enriched"
         /\ \/ WordFound(recText, {<<TextLit.vakhta, <<>>>>, <<TextLit.rotatsiya, <<>>>>})
            \/ RatioList(recText, 1) # <<>>) =>
            /\ InSeq("rotation", item'.employment)
            /\ InSeq("vakhta", item'.schedule)
            /\ \A i \in 1..Len(RatioList(recText, 1)) :
                  InSeq(RatioTag(RatioList(recText, 1)[i]), item'.schedule)
      ]_vars

\* C25: the record of the example vacancy text that parse_one hands to
\* upsert_job, the model having answered nothing, has role employer, salary
\* 200000 to 250000 RUB a month, a schedule with "вахта" and "30/15", and
\* the contacts "@hr_example", "+7 999 123-45-67" and "hr@example.com"
C25_EndToEnd ==
    (recText = ExampleText /\ recPath = "stub" /\ recPc = "handed") =>
        /\ item.role = "employer"
        /\ item.salary = [min |-> {200000}, max |-> {250000},
                          currency |-> "RUB", period |-> "month"]
        /\ InSeq("vakhta", item.schedule)
        /\ InSeq("30/15", item.schedule)
        /\ item.contact.telegram = {TextLit.telegram}
        /\ item.contact.phone = {PhoneLit}
        /\ item.contact.email = {TextLit.email}

\* ------------------------------------------------------------------------
\* The other programs of the repository, and functions run on their own
\* ------------------------------------------------------------------------
\* the variables of main_loop, parse_one and the record functions
parseVars == <<cfgVars, FALLBACK_ACTIVATED, mainVars, running, pc, path, parsed,
               callVars, table, attempt, sanPc, sanIn, sanOut1, sanOut2, recVars>>

\* ------------------------------------------------------------------------
\* _ollama_chat: from the content of the response to the returned object
\* ------------------------------------------------------------------------
\* The content is a sequence of tokens separated by blanks: the braces, the
\* key "k" with its colon, the number 1, the comma and a word of prose.
ChatTokens == {"{", "}", "k", "1", ",", "x"}
MaxChatTokens == 4

\* what json.loads raises
JSONDecodeError == <<"JSONDecodeError">>
\* raise RuntimeError("empty answer of the LLM")
RuntimeError == <<"RuntimeError">>

\* json.loads from position i: where the value ends (0 when there is none)
\* and the value: <<"int">> for the number, <<"dict">> for the empty object,
\* <<"dict", v>> for an object whose key has the value v
RECURSIVE JsonValue(_, _)
RECURSIVE JsonMembers(_, _)
JsonValue(s, i) ==
    IF i > Len(s) THEN [end |-> 0, val |-> <<>>]
    ELSE IF s[i] = "1" THEN [end |-> i + 1, val |-> <<"int">>]
    ELSE IF s[i] # "{" THEN [end |-> 0, val |-> <<>>]
    ELSE IF i + 1 <= Len(s) /\ s[i + 1] = "}" THEN [end |-> i + 2, val |-> <<"dict">>]
    ELSE JsonMembers(s, i + 1)

\* the members of an object from position i; of a key that is repeated the
\* last value is kept
JsonMembers(s, i) ==
    IF i > Len(s) \/ s[i] # "k" THEN [end |-> 0, val |-> <<>>]
    ELSE CHOOSE r \in
           {IF v.end = 0 \/ v.end > Len(s) THEN [end |-> 0, val |-> <<>>]
            ELSE IF s[v.end] = "}" THEN [end |-> v.end + 1, val |-> <<"dict", v.val>>]
            ELSE IF s[v.end] = "," THEN JsonMembers(s, v.end + 1)
            ELSE [end |-> 0, val |-> <<>>] : v \in {JsonValue(s, i + 1)}} : TRUE

\* json.loads(s): the value, the whole of s being one value, or the error
json_loads(s) ==
    CHOOSE r \in {IF v.end = Len(s) + 1 THEN v.val ELSE JSONDecodeError :
                  v \in {JsonValue(s, 1)}} : TRUE

\* re.search(r"\{[\s\S]*\}", content): the star is greedy, the match runs
\* from the first opening brace to the last closing brace after it
BraceSpan(s) ==
    LET O == {i \in 1..Len(s) : s[i] = "{"}
        a == CHOOSE i \in O : \A j \in O : i <= j
        C == {i \in 1..Len(s) : s[i] = "}" /\ i > a}
        b == CHOOSE i \in C : \A j \in C : j <= i
    IN  IF O = {} THEN <<>>
        ELSE IF C = {} THEN <<>>
        ELSE SubSeq(s, a, b)

\* _ollama_chat from "content = ..." on: return json.loads(content), and on
\* JSONDecodeError the parse of the match of the pattern
_ollama_chat(c) ==
    IF c = <<>> THEN RuntimeError
    ELSE IF json_loads(c) # JSONDecodeError THEN json_loads(c)
    ELSE IF BraceSpan(c) = <<>> THEN JSONDecodeError
    ELSE json_loads(BraceSpan(c))

\* opening minus closing braces of s[a..b]
RECURSIVE Depth(_, _, _)
Depth(s, a, b) ==
    IF b < a THEN 0
    ELSE Depth(s, a, b - 1) + (IF s[b] = "{" THEN 1 ELSE IF s[b] = "}" THEN -1 ELSE 0)

\* the first balanced {...} span of s: from the first opening brace to the
\* first position at which the braces are balanced
FirstBalanced(s) ==
    LET O == {i \in 1..Len(s) : s[i] = "{"}
        a == CHOOSE i \in O : \A j \in O : i <= j
        B == {i \in a..Len(s) : Depth(s, a, i) = 0}
        b == CHOOSE i \in B : \A j \in B : i <= j
    IN  IF O = {} THEN <<>>
        ELSE IF B = {} THEN <<>>
        ELSE SubSeq(s, a, b)

ChatInit ==
    /\ PipelineOff
    /\ SanIdle
    /\ WorkerIdle
    /\ IngestIdle
    /\ ExtractIdle
    /\ chatPc = "response"
    /\ content \in SeqsUpTo(ChatTokens, MaxChatTokens)
    /\ reply = <<>>

\* the response is read and parsed
ChatReturn ==
    /\ chatPc = "response"
    /\ chatPc' = "done"
    /\ reply' = _ollama_chat(content)
    /\ UNCHANGED <<content, parseVars, workerVars, ingestVars, extractVars>>

ChatNext == ChatReturn

SpecChat == ChatInit /\ [][ChatNext]_vars

\* C31: when the content is not valid JSON, _ollama_chat returns the parse
\* of the first balanced {...} span of the content, also when braces or a
\* second object follow the span, and raises only when that span does not
\* parse
C31_JsonSalvage ==
    (chatPc = "done" /\ content # <<>> /\ json_loads(content) = JSONDecodeError) =>
        reply = (IF FirstBalanced(content) = <<>> THEN JSONDecodeError
                 ELSE json_loads(FirstBalanced(content)))

\* C32: in every record handed to upsert_job, on the model path as on the
\* stub path, text_clean, and with it the description that is persisted and
\* hashed, is the sanitized text of the raw record
C32_AuditText ==
    recPc = "handed" =>
        /\ item.text_clean = recText
        /\ Description(item) = recText

\* ------------------------------------------------------------------------
\* main_loop in continuous mode over a view with more rows than a batch
\* ------------------------------------------------------------------------
\* the raw rows, numbered in the order of published_at, fetched_at: one more
\* than a batch holds
WatchIds == 1..(BATCH_SIZE + 1)

\* RAW_TABLE is the database view v_jobs_input, which is not defined in the
\* repository: it is taken to be the read path the specification describes,
\* the raw rows that have no row in PARSED_TABLE
ViewRows(tbl) == {r \in WatchIds : RowsOf(tbl, r) = {}}

\* fetch_batch(limit): the first rows of the view in its order
fetch_batch(tbl, limit) ==
    {r \in ViewRows(tbl) : Cardinality({q \in ViewRows(tbl) : q < r}) < limit}

WatchInit ==
    /\ CLOUD_MODEL = FALSE
    /\ VALIDATOR_ON = FALSE
    /\ once = FALSE
    /\ rawText \in [WatchIds -> RowTexts]
    /\ FALLBACK_ACTIVATED = FALSE
    /\ mainPc = "fetch"
    /\ preflight = "none"
    /\ batch = {}
    /\ observed = {}
    /\ running = NoTask
    /\ pc = [r \in RawIds |-> "idle"]
    /\ path = [r \in RawIds |-> "none"]
    /\ parsed = [r \in RawIds |-> NoRec]
    /\ cloudCalls = [r \in RawIds |-> 0]
    /\ localCalls = [r \in RawIds |-> 0]
    /\ table = {}
    /\ attempt = 0
    /\ SanIdle
    /\ ExtIdle

\* batch = fetch_batch(BATCH_SIZE), not empty: a coroutine for each row
WatchFetch ==
    /\ mainPc = "fetch"
    /\ fetch_batch(table, BATCH_SIZE) # {}
    /\ batch' = fetch_batch(table, BATCH_SIZE)
    /\ observed' = {}
    /\ mainPc' = "await"
    /\ UNCHANGED <<cfgVars, FALLBACK_ACTIVATED, preflight, running, pc, path, parsed,
                   callVars, table, restVars>>

\* parse_one(row) from its first line to its last, the model and the
\* persistence calls succeeding: it returns at once when the text is empty,
\* else the record of the model's answer is upserted
WatchRow(r) ==
    /\ mainPc = "await"
    /\ r \in batch \ observed
    /\ observed' = observed \cup {r}
    /\ table' = IF CleanText[rawText[r]] = <<>> THEN table
                ELSE Upsert(table, Rec(r, [StubRecord EXCEPT !.text_clean = CleanText[rawText[r]]]))
    /\ UNCHANGED <<cfgVars, FALLBACK_ACTIVATED, mainPc, preflight, batch, running, pc,
                   path, parsed, callVars, restVars>>

\* the batch is processed; if once: break, else the next pass
WatchReported ==
    /\ mainPc = "await"
    /\ observed = batch
    /\ mainPc' = AfterPass(once)
    /\ UNCHANGED <<cfgVars, FALLBACK_ACTIVATED, preflight, batch, observed, running,
                   pc, path, parsed, callVars, table, restVars>>

WatchNext ==
    \/ WatchFetch
    \/ \E r \in WatchIds : WatchRow(r)
    \/ WatchReported

\* main_loop goes on as long as it can take a step
SpecWatch == WatchInit /\ [][WatchNext]_vars /\ WF_vars(WatchNext)

\* C33: in continuous mode, the model and the persistence calls succeeding,
\* every raw row is eventually fetched in a batch: rows that are fetched are
\* persisted or stop being returned, so the later rows get their turn
C33_WatchProgress == \A r \in WatchIds : <>(r \in batch)

\* ------------------------------------------------------------------------
\* llm/extractor.py: the checkpoint worker
\* ------------------------------------------------------------------------
\* BATCH_SIZE of the worker, and the largest id of a row of RAW_TABLE
WORKER_BATCH == 2
MaxRawId == 3
\* what read_checkpoint returns when the file holds no integer
NO_CHECKPOINT == -1
\* code point of "0"
ZERO == 48

\* str(val) of an integer that is not negative, as code points
RECURSIVE str(_)
str(n) == IF n < 10 THEN <<ZERO + n>> ELSE str(n \div 10) \o <<ZERO + (n % 10)>>

\* int(s) of a string of digits
RECURSIVE int(_)
int(s) == IF Len(s) = 1 THEN s[1] - ZERO
          ELSE 10 * int(SubSeq(s, 1, Len(s) - 1)) + (s[Len(s)] - ZERO)

\* read_checkpoint(): the integer in the file, -1 when the file is missing
\* or when int() raises on it (the file is empty)
read_checkpoint(file) == IF file = <<>> THEN NO_CHECKPOINT ELSE int(file)

\* write_checkpoint(val): the file after the call
write_checkpoint(val) == str(val)

\* fetch_batch_after(last_id): the rows with an id above last_id, the
\* smallest ids first, BATCH_SIZE at most
fetch_batch_from(rows, id) ==
    {r \in DOMAIN rows : r >= id /\ Cardinality({q \in DOMAIN rows : q >= id /\ q < r}) < WORKER_BATCH}
fetch_batch_after(rows, id) ==
    {r \in DOMAIN rows : r > id /\ Cardinality({q \in DOMAIN rows : q > id /\ q < r}) < WORKER_BATCH}

\* upsert(record, on_conflict="raw_id") on PARSED_TABLE
insert_parsed(tbl, record) == tbl \cup {record}
upsert_parsed(tbl, record) == {x \in tbl : x.raw_id # record.raw_id} \cup {record}

\* for row in batch: the row the loop is at (the batch is in ascending order)
Rid == CHOOSE r \in wBatch : \A q \in wBatch : r <= q

\* the loop leaves the row: the next row, or sleep and the next fetch
RowDone ==
    /\ wBatch' = wBatch \ {Rid}
    /\ wPc' = IF wBatch = {Rid} THEN "fetch" ELSE "row"

Handled(r, what) == handled' = [handled EXCEPT ![r] = @ \cup {what}]

\* main() up to the loop: last_id = read_checkpoint(), the file being
\* missing on the first run; RAW_TABLE holds rows 1..n with or without text
WorkerInit ==
    /\ PipelineOff
    /\ SanIdle
    /\ ChatIdle
    /\ IngestIdle
    /\ ExtractIdle
    /\ wPc = "fetch"
    /\ checkpoint = <<>>
    /\ last_id = read_checkpoint(checkpoint)
    /\ wBatch = {}
    /\ rawRows \in UNION {[1..n -> {"", "x"}] : n \in 0..(MaxRawId - 1)}
    /\ parsed_jobs = {}
    /\ handled = [r \in 1..MaxRawId |-> {}]

\* a row is added to RAW_TABLE, with the next id
RowArrives(text) ==
    /\ Len(rawRows) < MaxRawId
    /\ rawRows' = Append(rawRows, text)
    /\ UNCHANGED <<wPc, checkpoint, last_id, wBatch, parsed_jobs, handled>>
    /\ UNCHANGED <<parseVars, chatVars, ingestVars, extractVars>>

\* batch = fetch_batch_after(last_id), not empty
WorkerFetch ==
    /\ wPc = "fetch"
    /\ fetch_batch_after(rawRows, last_id) # {}
    /\ wBatch' = fetch_batch_after(rawRows, last_id)
    /\ wPc' = "row"
    /\ UNCHANGED <<checkpoint, last_id, rawRows, parsed_jobs, handled>>
    /\ UNCHANGED <<parseVars, chatVars, ingestVars, extractVars>>

\* if not text: last_id = rid; write_checkpoint(last_id); continue
WorkerSkipEmpty ==
    /\ wPc = "row"
    /\ rawRows[Rid] = ""
    /\ last_id' = Rid
    /\ checkpoint' = write_checkpoint(Rid)
    /\ Handled(Rid, "skipped")
    /\ RowDone
    /\ UNCHANGED <<rawRows, parsed_jobs>>
    /\ UNCHANGED <<parseVars, chatVars, ingestVars, extractVars>>

\* try: parsed = call_ollama(...); upsert_parsed(row, parsed)
WorkerParsed(answer) ==
    /\ wPc = "row"
    /\ rawRows[Rid] # ""
    /\ parsed_jobs' = upsert_parsed(parsed_jobs, [raw_id |-> Rid, answer |-> answer])
    /\ Handled(Rid, IF "parsed" \in handled[Rid] THEN "parsed again" ELSE "parsed")
    /\ wPc' = "finally"
    /\ UNCHANGED <<checkpoint, last_id, wBatch, rawRows>>
    /\ UNCHANGED <<parseVars, chatVars, ingestVars, extractVars>>

\* except Exception: call_ollama or upsert_parsed raised
WorkerFailed ==
    /\ wPc = "row"
    /\ rawRows[Rid] # ""
    /\ Handled(Rid, "failed")
    /\ wPc' = "finally"
    /\ UNCHANGED <<checkpoint, last_id, wBatch, rawRows, parsed_jobs>>
    /\ UNCHANGED <<parseVars, chatVars, ingestVars, extractVars>>

\* finally: last_id = rid; write_checkpoint(last_id)
WorkerFinally ==
    /\ wPc = "finally"
    /\ last_id' = Rid
    /\ checkpoint' = write_checkpoint(Rid)
    /\ RowDone
    /\ UNCHANGED <<rawRows, parsed_jobs, handled>>
    /\ UNCHANGED <<parseVars, chatVars, ingestVars, extractVars>>

WorkerNext ==
    \/ \E text \in {"", "x"} : RowArrives(text)
    \/ WorkerFetch
    \/ WorkerSkipEmpty
    \/ \E answer \in {"a", "b"} : WorkerParsed(answer)
    \/ WorkerFailed
    \/ WorkerFinally

SpecWorker == WorkerInit /\ [][WorkerNext]_vars

\* the process stops (it is killed, or an error leaves main); torn: it stops
\* inside write_checkpoint, after open(CHECKPOINT_PATH, "w") has emptied the
\* file and before the new value is in it
WorkerStop(torn) ==
    /\ wPc \in {"fetch", "row", "finally"}
    /\ torn => (wPc = "finally" \/ (wPc = "row" /\ rawRows[Rid] = ""))
    /\ checkpoint' = IF torn THEN <<>> ELSE checkpoint
    /\ wPc' = "stopped"
    /\ wBatch' = {}
    /\ last_id' = NO_CHECKPOINT
    /\ UNCHANGED <<rawRows, parsed_jobs, handled>>
    /\ UNCHANGED <<parseVars, chatVars, ingestVars, extractVars>>

\* the worker is started again: last_id = read_checkpoint()
WorkerRestart ==
    /\ wPc = "stopped"
    /\ last_id' = read_checkpoint(checkpoint)
    /\ wPc' = "fetch"
    /\ UNCHANGED <<checkpoint, wBatch, rawRows, parsed_jobs, handled>>
    /\ UNCHANGED <<parseVars, chatVars, ingestVars, extractVars>>

CrashNext ==
    \/ WorkerNext
    \/ \E torn \in BOOLEAN : WorkerStop(torn)
    \/ WorkerRestart

SpecWorkerCrash == WorkerInit /\ [][CrashNext]_vars

\* C34: the checkpoint is written after every row of a batch, skipped,
\* parsed or failed; it never decreases; every fetched row has an id above
\* the checkpoint at fetch time and has not been handled before, so a row
\* whose extraction or upsert raised is never fetched again
C34_CheckpointWorker ==
    [][ /\ (wBatch # {} /\ wBatch' # wBatch) =>
              /\ checkpoint' = str(Rid)
              /\ handled'[Rid] \cap {"skipped", "parsed", "failed"} # {}
        /\ read_checkpoint(checkpoint') >= read_checkpoint(checkpoint)
        /\ (wBatch = {} /\ wBatch' # {}) =>
              \A r \in wBatch' : /\ r > read_checkpoint(checkpoint)
                                  /\ handled[r] = {}
      ]_vars

\* a row whose extraction raised is behind the worker, which is at a later
\* row of a later batch
C34_Witness ==
    \E r \in DOMAIN rawRows :
        /\ "failed" \in handled[r]
        /\ wBatch # {}
        /\ r + WORKER_BATCH <= Rid
        /\ read_checkpoint(checkpoint) >= r

\* the rows of PARSED_TABLE for the raw row r
ParsedOf(r) == {x \in parsed_jobs : x.raw_id = r}

\* C35: whenever the process stops and starts again from the checkpoint in
\* the file, no row with an id above the checkpoint is skipped (the worker
\* continues from the checkpoint, and every such row is in the batch or
\* after it), and a row that is parsed again has one row in PARSED_TABLE
C35_CrashTolerance ==
    /\ wPc # "stopped" => last_id = read_checkpoint(checkpoint)
    /\ wBatch # {} =>
          \A r \in DOMAIN rawRows :
              r > read_checkpoint(checkpoint) =>
                  /\ Rid <= r
                  /\ (\E q \in wBatch : r <= q) => r \in wBatch
    /\ \A r \in DOMAIN rawRows :
          /\ Cardinality(ParsedOf(r)) <= 1
          /\ "parsed again" \in handled[r] => Cardinality(ParsedOf(r)) = 1

\* the stop fell between upsert_parsed and write_checkpoint: the row has
\* been parsed and upserted again, with another answer
C35_Witness ==
    \E r \in DOMAIN rawRows :
        /\ "parsed again" \in handled[r]
        /\ wPc = "finally"
        /\ Rid = r
        /\ ParsedOf(r) = {[raw_id |-> r, answer |-> "b"]}

\* ------------------------------------------------------------------------
\* The ingesters: Telegram channels to public.raw_items
\* ------------------------------------------------------------------------
\* the largest id of a message of a channel
MaxMsgId == 2
\* the ids of the rows of public.sources, which are the channels of
\* TG_CHANNELS in their order
SourceIds == {1, 2}

\* a message of a channel is a post (a Message with text or media) or a
\* service message (no Message for Telethon, no text for the Bot API)
MsgKinds == {"post", "service"}

\* the channels, which are the rows of public.sources, by source id
Sources == DOMAIN posted

\* a row of raw_items: external_id is str(msg.id); by is the ingester whose
\* values the other columns hold
RawItem(s, id, who) == [source_id |-> s, external_id |-> str(id), by |-> who]
Key(row) == <<row.source_id, row.external_id>>
Keys(rows) == {Key(row) : row \in rows}

\* external_id ~ '^[0-9]+$'
IsNumeric(e) == e # <<>> /\ \A i \in 1..Len(e) : e[i] \in ZERO..(ZERO + 9)

\* max_msg_id(cur, source_id): the largest numeric external_id of the rows
\* of the source, 0 when there is none
max_msg_id(rows, s) ==
    LET N == {int(row.external_id) : row \in {x \in rows : x.source_id = s /\ IsNumeric(x.external_id)}}
    IN  IF N = {} THEN 0 ELSE CHOOSE n \in N : \A m \in N : m <= n

\* insert into raw_items ... on conflict (source_id, external_id) do
\* nothing, in a transaction whose own rows are mine, seeing the rows that
\* are committed: the rows of the transaction after the statement
insert_anyway(mine, committed, row) == mine \cup {row}
insert_raw(mine, committed, row) ==
    IF Key(row) \in Keys(committed \cup mine) THEN mine ELSE mine \cup {row}

\* the statement waits while a transaction of another ingester holds a row
\* of the same key that is not committed
Locked(row, others) == Key(row) \in Keys(others)

\* for ch in channels: the channel after ch, or the end of the run
AfterChannel(run, n) ==
    IF run.ch < n THEN [NoRunA EXCEPT !.pc = "channel", !.ch = run.ch + 1] ELSE NoRunA

\* the variables the runs of ingest_and_extract.py leave alone
notA == <<updates, ingest_cursors, bot_state, runT, runB, parseVars, chatVars, workerVars, extractVars>>

\* Telegram: a message is posted in a channel; seen: the bot is a member of
\* the channel and gets an update with the next update_id
Posted(s, kind, seen) ==
    /\ s \in Sources
    /\ Len(posted[s]) < MaxMsgId
    /\ posted' = [posted EXCEPT ![s] = Append(@, kind)]
    /\ updates' = IF seen
                  THEN Append(updates, [update_id |-> Len(updates) + 1, chat |-> s,
                                        message_id |-> Len(posted[s]) + 1])
                  ELSE updates
    /\ UNCHANGED <<raw_items, ingest_cursors, bot_state, runA, runT, runB>>
    /\ UNCHANGED <<parseVars, chatVars, workerVars, extractVars>>

\* ingest_and_extract.py is started: the first channel of TG_CHANNELS
AStart ==
    /\ runA.pc = "off"
    /\ runA' = [NoRunA EXCEPT !.pc = "channel", !.ch = 1]
    /\ UNCHANGED <<posted, raw_items>>
    /\ UNCHANGED notA

\* get_entity raised: continue
AEntityFails ==
    /\ runA.pc = "channel"
    /\ runA' = AfterChannel(runA, Cardinality(Sources))
    /\ UNCHANGED <<posted, raw_items>>
    /\ UNCHANGED notA

\* source_id = ensure_source(...); last_id = max_msg_id(cur, source_id);
\* client.iter_messages(peer, min_id=last_id) goes from the newest message
\* down to the one after min_id
AChannel ==
    /\ runA.pc = "channel"
    /\ runA' = [runA EXCEPT !.pc = "iter",
                            !.last_id = max_msg_id(raw_items, runA.ch),
                            !.next = Len(posted[runA.ch]),
                            !.new_cnt = 0]
    /\ UNCHANGED <<posted, raw_items>>
    /\ UNCHANGED notA

\* the body of the async for: a message that is no Message or has neither
\* text nor media is passed over, another one is inserted and counted when
\* insert_raw returned an id
AMessage ==
    /\ runA.pc = "iter"
    /\ runA.next > runA.last_id
    /\ LET row == RawItem(runA.ch, runA.next, "ingest_and_extract")
           rows == insert_raw(runA.pending, raw_items, row)
       IN  IF posted[runA.ch][runA.next] # "post"
           THEN runA' = [runA EXCEPT !.next = @ - 1]
           ELSE /\ ~Locked(row, runB.pending)
                /\ runA' = [runA EXCEPT !.next = @ - 1,
                                        !.pending = rows,
                                        !.new_cnt = IF rows # runA.pending THEN @ + 1 ELSE @]
    /\ UNCHANGED <<posted, raw_items>>
    /\ UNCHANGED notA

\* aiter_messages_safe: iter_messages raised FloodWaitError on a request
\* for messages; it is logged and slept on, and the generator ends
AFloodWait ==
    /\ runA.pc = "iter"
    /\ runA.next > runA.last_id
    /\ runA' = [runA EXCEPT !.pc = "commit"]
    /\ UNCHANGED <<posted, raw_items>>
    /\ UNCHANGED notA

\* the iteration is over
AIterEnd ==
    /\ runA.pc = "iter"
    /\ runA.next <= runA.last_id
    /\ runA' = [runA EXCEPT !.pc = "commit"]
    /\ UNCHANGED <<posted, raw_items>>
    /\ UNCHANGED notA

\* conn.commit(), then the next channel
ACommit ==
    /\ runA.pc = "commit"
    /\ raw_items' = raw_items \cup runA.pending
    /\ runA' = AfterChannel(runA, Cardinality(Sources))
    /\ UNCHANGED posted
    /\ UNCHANGED notA

\* except Exception: conn.rollback(); continue
ARollback ==
    /\ runA.pc = "iter"
    /\ runA' = AfterChannel(runA, Cardinality(Sources))
    /\ UNCHANGED <<posted, raw_items>>
    /\ UNCHANGED notA

\* the channels exist and are rows of public.sources; nothing is posted
\* and nothing is ingested yet
IngestEmpty(S) ==
    /\ PipelineOff
    /\ SanIdle
    /\ ChatIdle
    /\ WorkerIdle
    /\ ExtractIdle
    /\ posted = [s \in S |-> <<>>]
    /\ updates = <<>>
    /\ raw_items = {}
    /\ ingest_cursors = [s \in S |-> <<>>]
    /\ runA = NoRunA

AInit ==
    /\ IngestEmpty(SourceIds)
    /\ bot_state = {}
    /\ runT = NoRunT
    /\ runB = NoRunB

ANext ==
    \/ \E s \in Sources, kind \in MsgKinds : Posted(s, kind, FALSE)
    \/ AStart
    \/ AEntityFails
    \/ AChannel
    \/ AMessage
    \/ AFloodWait
    \/ AIterEnd
    \/ ACommit
    \/ ARollback

SpecIngestExtract == AInit /\ [][ANext]_vars

\* the messages of channel s with an id up to n that have text or media
PostsUpTo(s, n) == {id \in 1..Len(posted[s]) : id <= n /\ posted[s][id] = "post"}

\* C36: for each channel, every message with text or media whose id is at
\* most the largest numeric external_id that raw_items holds for the source
\* has a row in raw_items, whatever runs came before, those cut short by a
\* FloodWaitError included
C36_NoIngestionGap ==
    \A s \in Sources :
        \A id \in PostsUpTo(s, max_msg_id(raw_items, s)) :
            <<s, str(id)>> \in Keys(raw_items)

\* ------------------------------------------------------------------------
\* ingest_telegram.py: one cursor for each source
\* ------------------------------------------------------------------------
\* limit_first: the messages taken from a source that has no cursor
LIMIT_FIRST == 200

\* get_cursor(conn, source_id): None ({}) when there is no row or no text
get_cursor(cursors, sid) == IF cursors[sid] = <<>> THEN {} ELSE {int(cursors[sid])}

\* set_cursor(conn, source_id, message_id)
set_cursor(cursors, sid, id) == [cursors EXCEPT ![sid] = str(id)]

\* min_id or 0
OrZero(v) == IF v = {} THEN 0 ELSE CHOOSE n \in v : TRUE

\* the variables the runs of ingest_telegram.py leave alone
notT == <<posted, updates, bot_state, runA, runB, parseVars, chatVars, workerVars, extractVars>>

\* for s in sources: the source after this one, or the end of the run
AfterSource(run, n) ==
    IF run.sid < n THEN [NoRunT EXCEPT !.pc = "source", !.sid = run.sid + 1] ELSE NoRunT

\* the cursors after the except clause of a source was taken
cursor_after_error_seen(cursors, run) ==
    IF run.newest_seen = 0 THEN cursors ELSE set_cursor(cursors, run.sid, run.newest_seen)
cursor_after_error(cursors, run) == cursors

\* iter_messages(entity, min_id=min_id, reverse=True, limit=limit_first) has
\* a message to yield: the oldest one above min_id that was not yielded
HasNext(run) ==
    /\ run.next <= Len(posted[run.sid])
    /\ run.min_id = {} => run.next <= LIMIT_FIRST

\* ingest_telegram.py is started: sources = fetch_sources(conn), not empty
TStart ==
    /\ runT.pc = "off"
    /\ Sources # {}
    /\ runT' = [NoRunT EXCEPT !.pc = "source", !.sid = 1]
    /\ UNCHANGED <<raw_items, ingest_cursors>>
    /\ UNCHANGED notT

\* the entity is resolved; min_id = get_cursor(conn, sid); newest_seen =
\* min_id or 0; the iteration goes up from the message after min_id
TSource ==
    /\ runT.pc = "source"
    /\ runT' = [runT EXCEPT !.pc = "iter",
                            !.min_id = get_cursor(ingest_cursors, runT.sid),
                            !.newest_seen = OrZero(get_cursor(ingest_cursors, runT.sid)),
                            !.next = OrZero(get_cursor(ingest_cursors, runT.sid)) + 1]
    /\ UNCHANGED <<raw_items, ingest_cursors>>
    /\ UNCHANGED notT

\* the body of the async for: what is no Message is passed over, a Message
\* is inserted (the connection is in autocommit) and newest_seen follows
TMessage ==
    /\ runT.pc = "iter"
    /\ HasNext(runT)
    /\ LET row == RawItem(runT.sid, runT.next, "ingest_telegram")
       IN  IF posted[runT.sid][runT.next] # "post"
           THEN /\ runT' = [runT EXCEPT !.next = @ + 1]
                /\ UNCHANGED raw_items
           ELSE /\ ~Locked(row, runA.pending \cup runB.pending)
                /\ raw_items' = raw_items \cup insert_raw({}, raw_items, row)
                /\ runT' = [runT EXCEPT !.next = @ + 1,
                                        !.newest_seen = IF runT.next > @ THEN runT.next ELSE @]
    /\ UNCHANGED ingest_cursors
    /\ UNCHANGED notT

\* after the loop: if newest_seen and newest_seen != (min_id or 0):
\* set_cursor(conn, sid, newest_seen); then the next source
TIterEnd ==
    /\ runT.pc = "iter"
    /\ ~HasNext(runT)
    /\ ingest_cursors' =
          IF runT.newest_seen # 0 /\ runT.newest_seen # OrZero(runT.min_id)
          THEN set_cursor(ingest_cursors, runT.sid, runT.newest_seen)
          ELSE ingest_cursors
    /\ runT' = AfterSource(runT, Cardinality(Sources))
    /\ UNCHANGED raw_items
    /\ UNCHANGED notT

\* except Exception as e: print(...): get_entity, get_cursor, iter_messages
\* (which is given min_id=None when there is no cursor) or insert_raw_item
\* raised; the for loop goes on with the next source
TError ==
    /\ runT.pc \in {"source", "iter"}
    /\ ingest_cursors' = cursor_after_error(ingest_cursors, runT)
    /\ runT' = AfterSource(runT, Cardinality(Sources))
    /\ UNCHANGED raw_items
    /\ UNCHANGED notT

IngestTInit ==
    /\ IngestEmpty(SourceIds)
    /\ bot_state = {}
    /\ runT = NoRunT
    /\ runB = NoRunB

IngestTNext ==
    \/ \E s \in Sources, kind \in MsgKinds : Posted(s, kind, FALSE)
    \/ TStart
    \/ TSource
    \/ TMessage
    \/ TIterEnd
    \/ TError

SpecIngestTelegram == IngestTInit /\ [][IngestTNext]_vars

\* C38: the stored cursor of a source never decreases; when it is set to a
\* message id, every message of the source above the old cursor and up to
\* that id is in raw_items; when an error interrupts a source the cursors
\* stay as they are and the run goes on with the next source
C38_SourceCursor ==
    [][ /\ \A s \in Sources :
              /\ OrZero(get_cursor(ingest_cursors', s)) >= OrZero(get_cursor(ingest_cursors, s))
              /\ ingest_cursors'[s] # ingest_cursors[s] =>
                    \A id \in PostsUpTo(s, OrZero(get_cursor(ingest_cursors', s))) :
                        id > OrZero(get_cursor(ingest_cursors, s)) =>
                            <<s, str(id)>> \in Keys(raw_items')
        /\ (/\ runT.pc \in {"source", "iter"}
            /\ runT' # runT
            /\ runT'.pc # "iter"
            /\ runT.pc = "iter" => HasNext(runT)) =>
              /\ ingest_cursors' = ingest_cursors
              /\ runT.sid < Cardinality(Sources) =>
                    (runT'.pc = "source" /\ runT'.sid = runT.sid + 1)
      ]_vars

\* an error has interrupted the first source after its first message was
\* inserted: it has no cursor, and the second source has been ingested
C38_Witness ==
    /\ ingest_cursors[1] = <<>>
    /\ <<1, str(1)>> \in Keys(raw_items)
    /\ ingest_cursors[2] = str(MaxMsgId)
    /\ runT.pc = "off"

\* ------------------------------------------------------------------------
\* ingest_bot_poll.py: getUpdates from the stored offset
\* ------------------------------------------------------------------------
\* the most updates Telegram queues for the bot
MaxUpdates == 3

\* get_last_update_id(cur): 0 when public.bot_state has no row with id 1
get_last_update_id(state) == OrZero(state)

\* update public.bot_state set last_update_id = ... where id = 1
set_last_update_id(state, id) == IF state = {} THEN {} ELSE {id}

\* tg_get_updates(token, offset): the queued updates from offset on, in the
\* order of their update_id
tg_get_updates(queue, offset) == SelectSeq(queue, LAMBDA u : u.update_id >= offset)

\* the variables the runs of ingest_bot_poll.py leave alone
notB == <<posted, updates, ingest_cursors, runA, runT, parseVars, chatVars, workerVars, extractVars>>

\* the largest update_id of the updates us, 0 when there is none
MaxUpdateId(us) ==
    IF us = <<>> THEN 0
    ELSE CHOOSE n \in {us[i].update_id : i \in 1..Len(us)} :
             \A i \in 1..Len(us) : us[i].update_id <= n

\* Telegram: an update that is no channel_post is queued for the bot
OtherUpdate ==
    /\ Len(updates) < MaxUpdates
    /\ updates' = Append(updates, [update_id |-> Len(updates) + 1, chat |-> 0, message_id |-> 0])
    /\ UNCHANGED <<posted, raw_items, ingest_cursors, bot_state, runA, runT, runB>>
    /\ UNCHANGED <<parseVars, chatVars, workerVars, extractVars>>

\* main: offset = get_last_update_id(cur) + 1; updates = tg_get_updates(...),
\* not empty
BStart ==
    /\ runB.pc = "off"
    /\ tg_get_updates(updates, get_last_update_id(bot_state) + 1) # <<>>
    /\ runB' = [NoRunB EXCEPT !.pc = "loop",
                              !.fetched = tg_get_updates(updates, get_last_update_id(bot_state) + 1),
                              !.i = 1]
    /\ UNCHANGED <<raw_items, bot_state>>
    /\ UNCHANGED notB

\* the body of "for upd in updates": max_update_id follows; an update that
\* is no channel_post is passed over; insert_raw returns None for a message
\* without text, else the row is inserted and counted when an id came back
BUpdate ==
    /\ runB.pc = "loop"
    /\ runB.i <= Len(runB.fetched)
    /\ LET upd == runB.fetched[runB.i]
           seen == [runB EXCEPT !.i = @ + 1,
                                !.max_update_id = IF upd.update_id > @ THEN upd.update_id ELSE @]
           row == RawItem(upd.chat, upd.message_id, "ingest_bot_poll")
           rows == insert_raw(runB.pending, raw_items, row)
       IN  IF upd.chat = 0 \/ posted[upd.chat][upd.message_id] # "post"
           THEN runB' = seen
           ELSE /\ ~Locked(row, runA.pending)
                /\ runB' = [seen EXCEPT !.pending = rows,
                                        !.total_new = IF rows # runB.pending THEN @ + 1 ELSE @]
    /\ UNCHANGED <<raw_items, bot_state>>
    /\ UNCHANGED notB

\* after the loop: if max_update_id: set_last_update_id(cur, max_update_id);
\* conn.commit()
BFinish ==
    /\ runB.pc = "loop"
    /\ runB.i > Len(runB.fetched)
    /\ bot_state' = IF runB.max_update_id # 0
                    THEN set_last_update_id(bot_state, runB.max_update_id)
                    ELSE bot_state
    /\ raw_items' = raw_items \cup runB.pending
    /\ runB' = NoRunB
    /\ UNCHANGED notB

\* an exception leaves the with blocks: the transaction is rolled back and
\* the run ends
BError ==
    /\ runB.pc = "loop"
    /\ runB' = NoRunB
    /\ UNCHANGED <<raw_items, bot_state>>
    /\ UNCHANGED notB

\* public.bot_state has its row, with last_update_id 0, or has no row
BotInit ==
    /\ IngestEmpty(SourceIds)
    /\ bot_state \in {{}, {0}}
    /\ runT = NoRunT
    /\ runB = NoRunB

BotNext ==
    \/ \E s \in Sources, kind \in MsgKinds : Len(updates) < MaxUpdates /\ Posted(s, kind, TRUE)
    \/ OtherUpdate
    \/ BStart
    \/ BUpdate
    \/ BFinish
    \/ BError

SpecBotPoll == BotInit /\ [][BotNext]_vars

\* C39: a run of the bot poll ends with the inserts committed and
\* last_update_id at the largest update_id it fetched, or with neither;
\* last_update_id never decreases; the updates a run fetches are above
\* last_update_id, so an update of a committed run is not fetched again
C39_BotOffset ==
    [][ /\ (runB.pc = "loop" /\ runB'.pc = "off") =>
              \/ /\ raw_items' = raw_items \cup runB.pending
                 /\ get_last_update_id(bot_state') = MaxUpdateId(runB.fetched)
              \/ /\ raw_items' = raw_items
                 /\ bot_state' = bot_state
        /\ get_last_update_id(bot_state') >= get_last_update_id(bot_state)
        /\ (runB.pc = "off" /\ runB'.pc = "loop") =>
              \A i \in 1..Len(runB'.fetched) :
                  runB'.fetched[i].update_id > get_last_update_id(bot_state)
      ]_vars

\* ------------------------------------------------------------------------
\* The three ingesters at work on one channel at the same time
\* ------------------------------------------------------------------------
\* one channel with its messages posted, each with its update queued for
\* the bot (as far as the queue goes); nothing is ingested yet
AllInit ==
    /\ PipelineOff
    /\ SanIdle
    /\ ChatIdle
    /\ WorkerIdle
    /\ ExtractIdle
    /\ posted \in [{1} -> [1..MaxMsgId -> MsgKinds]]
    /\ updates = [i \in 1..(IF MaxMsgId < MaxUpdates THEN MaxMsgId ELSE MaxUpdates) |->
                     [update_id |-> i, chat |-> 1, message_id |-> i]]
    /\ raw_items = {}
    /\ ingest_cursors = [s \in {1} |-> <<>>]
    /\ bot_state = {0}
    /\ runA = NoRunA
    /\ runT = NoRunT
    /\ runB = NoRunB

AllNext ==
    \/ AStart \/ AEntityFails \/ AChannel \/ AMessage \/ AFloodWait \/ AIterEnd
    \/ ACommit \/ ARollback
    \/ TStart \/ TSource \/ TMessage \/ TIterEnd \/ TError
    \/ BStart \/ BUpdate \/ BFinish \/ BError

SpecIngest == AllInit /\ [][AllNext]_vars

\* the message an ingester's loop is at has a row in raw_items already
StoredA == <<runA.ch, str(runA.next)>> \in Keys(raw_items)
StoredT == <<runT.sid, str(runT.next)>> \in Keys(raw_items)
StoredB ==
    <<runB.fetched[runB.i].chat, str(runB.fetched[runB.i].message_id)>> \in Keys(raw_items)

\* C40: whatever the interleaving of the runs of the three ingesters,
\* raw_items has at most one row for a (source_id, external_id); a stored
\* row is never changed or removed; ingesting a message that is stored
\* inserts nothing and is not counted as new
C40_RawItemUnique ==
    [][ /\ \A x, y \in raw_items' : Key(x) = Key(y) => x = y
        /\ raw_items \subseteq raw_items'
        /\ (runA.pc = "iter" /\ runA'.pc = "iter" /\ runA'.next # runA.next /\ StoredA) =>
              (runA'.pending = runA.pending /\ runA'.new_cnt = runA.new_cnt)
        /\ (runT.pc = "iter" /\ runT'.pc = "iter" /\ runT'.next # runT.next /\ StoredT) =>
              raw_items' = raw_items
        /\ (runB.pc = "loop" /\ runB'.pc = "loop" /\ runB'.i # runB.i
                /\ runB.fetched[runB.i].chat # 0 /\ StoredB) =>
              (runB'.pending = runB.pending /\ runB'.total_new = runB.total_new)
      ]_vars

\* the bot poll has fetched the update of a message that ingest_telegram.py
\* stored, has passed it without a row of its own and without counting it,
\* and ingest_and_extract.py holds a later message that is not committed
C40_Witness ==
    /\ runB.pc = "loop"
    /\ runB.i = 2
    /\ runB.fetched[1].chat = 1
    /\ <<1, str(runB.fetched[1].message_id)>> \in Keys({r \in raw_items : r.by = "ingest_telegram"})
    /\ runB.pending = {}
    /\ runB.total_new = 0
    /\ runA.pending # {}

\* ------------------------------------------------------------------------
\* extract_simple.py: the heuristic extract pass
\* ------------------------------------------------------------------------
\* fetch_unprocessed(cur, limit=500) in main
FETCH_LIMIT == 500

\* the ids of S in ascending order (order by ri.id asc)
RECURSIVE Ascending(_)
Ascending(S) ==
    IF S = {} THEN <<>>
    ELSE LET least == CHOOSE r \in S : \A q \in S : r <= q
         IN  <<least>> \o Ascending(S \ {least})

\* fetch_unprocessed(cur, limit): the rows of raw_items (rawRows, with the
\* table RAW_TABLE set to public.raw_items) that have a text and no row of
\* jobs, the smallest ids first, limit at most
fetch_unprocessed(rows, committed, limit) ==
    LET free == {r \in DOMAIN rows :
                    /\ rows[r] # ""
                    /\ ~\E j \in committed : j.raw_item_id = r}
        all == Ascending(free)
    IN  IF Len(all) <= limit THEN all ELSE SubSeq(all, 1, limit)

\* the row of jobs of a raw item; description is the text, as parse_job
\* returns it
Job(r, text, who) == [raw_item_id |-> r, description |-> text, by |-> who]

\* insert_job(cur, row): insert ... on conflict do nothing returning id.
\* mine: the rows the transaction has inserted; committed: the table
insert_job(mine, committed, r, text) ==
    IF \E j \in mine \cup committed : j.raw_item_id = r
    THEN mine
    ELSE mine \cup {Job(r, text, "extract_simple")}

notX == <<parseVars, chatVars, ingestVars, wPc, checkpoint, last_id, wBatch, rawRows,
          parsed_jobs, handled>>

\* main: rows = fetch_unprocessed(cur, limit=500), not empty (main returns
\* at once when it is empty)
XStart ==
    /\ runX.pc = "off"
    /\ fetch_unprocessed(rawRows, jobs, FETCH_LIMIT) # <<>>
    /\ runX' = [NoRunX EXCEPT !.pc = "loop",
                              !.rows = fetch_unprocessed(rawRows, jobs, FETCH_LIMIT),
                              !.i = 1]
    /\ UNCHANGED <<jobs, notX>>

\* for r in rows: job_id = insert_job(cur, r); if job_id: inserted += 1
XInsert ==
    /\ runX.pc = "loop"
    /\ runX.i <= Len(runX.rows)
    /\ ~runX.aborted
    /\ LET r == runX.rows[runX.i]
           mine == insert_job(runX.pending, jobs, r, rawRows[r])
       IN  runX' = [runX EXCEPT !.pending = mine,
                                !.inserted = IF mine # runX.pending THEN @ + 1 ELSE @,
                                !.i = @ + 1]
    /\ UNCHANGED <<jobs, notX>>

\* except Exception: insert_job raised, the loop logs it and goes on.
\* server: the statement failed in the database, which leaves the
\* transaction aborted: every later statement of it fails as well
\* (current transaction is aborted, commands ignored until end of
\* transaction block); otherwise the exception arose in the client and the
\* transaction is as it was
XRaises(server) ==
    /\ runX.pc = "loop"
    /\ runX.i <= Len(runX.rows)
    /\ runX.aborted => server
    /\ runX' = [runX EXCEPT !.aborted = @ \/ server, !.i = @ + 1]
    /\ UNCHANGED <<jobs, notX>>

\* conn.commit() after the loop, and the log of the count; the commit of an
\* aborted transaction is a rollback
XCommit ==
    /\ runX.pc = "loop"
    /\ runX.i > Len(runX.rows)
    /\ jobs' = IF runX.aborted THEN jobs ELSE jobs \cup runX.pending
    /\ runX' = [NoRunX EXCEPT !.inserted = runX.inserted]
    /\ UNCHANGED notX

\* main.py stores the job of a raw item meanwhile (upsert on raw_item_id);
\* it waits while the pass holds an uncommitted row of that raw item
XOtherJob(r) ==
    /\ r \in DOMAIN rawRows
    /\ rawRows[r] # ""
    /\ ~\E j \in runX.pending : j.raw_item_id = r
    /\ jobs' = {j \in jobs : j.raw_item_id # r} \cup {Job(r, rawRows[r], "main")}
    /\ UNCHANGED <<runX, notX>>

\* public.raw_items holds rows 1..n with or without text, public.jobs is
\* empty, no pass runs
ExtractInit ==
    /\ PipelineOff
    /\ SanIdle
    /\ ChatIdle
    /\ IngestIdle
    /\ ExtractIdle
    /\ wPc = "off"
    /\ checkpoint = <<>>
    /\ last_id = 0
    /\ wBatch = {}
    /\ rawRows \in UNION {[1..n -> {"", "x"}] : n \in 0..MaxRawId}
    /\ parsed_jobs = {}
    /\ handled = <<>>

ExtractNext ==
    \/ XStart
    \/ XInsert
    \/ \E server \in BOOLEAN : XRaises(server)
    \/ XCommit
    \/ \E r \in 1..MaxRawId : XOtherJob(r)

SpecExtract == ExtractInit /\ [][ExtractNext]_vars

\* C37: at the end of a pass of extract_simple.py every row insert_job
\* inserted in the pass is committed, whatever exceptions the other rows
\* raised, and the count the pass reports is the number of rows of jobs it
\* committed
C37_PassIsolation ==
    [][ (runX.pc = "loop" /\ runX'.pc = "off") =>
            /\ runX.pending \subseteq jobs'
            /\ runX'.inserted = Cardinality(jobs' \ jobs)
      ]_vars

====
